---- MODULE Spec2Model ----
(***************************************************************************)
(* State-machine model of the LED stage editor (src/main_oop.js).          *)
(*                                                                         *)
(* Three specifications share the module:                                  *)
(*   Spec        LEDStageApp: selection slot, cinema cameras, placed       *)
(*               models, pin, fullscreen, capture and preview renders.     *)
(*   SpecStudio  LEDStudioManager.switchStudio, LEDStageApp.onStudioChange *)
(*               and the LEDScreen bound to the studio's screen material.  *)
(*   SpecObject  SceneObject highlight: storeOriginalMaterials, select,    *)
(*               deselect over the children of one placed model.           *)
(* Every handler runs to completion before the next one starts (one        *)
(* thread of callbacks); a handler is one action.  The offscreen render    *)
(* inside capture()/renderCameraPreview() is a step of its own so that the *)
(* state at the moment of the render, and a render that throws, are states *)
(* of the model.                                                           *)
(***************************************************************************)
EXTENDS Integers, Sequences, FiniteSets, TLC

\* ------------------------------------------------------------------ bounds
MaxCams == 2        \* cinema cameras created in one run
MaxObjs == 1        \* placed models loaded in one run
MaxOverlays == 2    \* fullscreen overlays in the document at once
MaxLoops == MaxOverlays  \* renderFullscreen callback chains scheduled at once
MaxHits == 2        \* meshes one pick ray intersects
MaxDepth == 2       \* levels between a model's root and a mesh below it

NULL == <<"none", 0>>

CamIds == {<<"cam", n>> : n \in 1..MaxCams}
ObjIds == {<<"obj", n>> : n \in 1..MaxObjs}
EntityIds == CamIds \cup ObjIds

VARIABLES
  \* ---- LEDStageApp
  sceneObjects,        \* Map id -> SceneObject, in insertion order
  cinemaCameras,       \* Map id -> CinemaCamera, in insertion order
  cameraCounter,       \* next camera number
  objCounter,          \* placed models created so far (ids are never reused)
  selectedObject,      \* the selection slot
  pinnedCamera,
  isSelected,          \* entity.isSelected
  hasUnlitChild,       \* the model has a child whose material has no emissive
  helperVisible,       \* cam.helper.visible
  meshVisible,         \* cam.mesh.visible
  tcObject,            \* transformControls.object (attached node's owner)
  tcVisible,           \* transformControls.visible
  tcMode,              \* transformControls.mode
  isFullscreen,
  overlays,            \* #fullscreen-overlay elements in the document
  fsLoops,             \* renderFullscreen callback chains still scheduled
  cameraPreviewRenderer,
  viewportShown,       \* #camera-viewport display = block
  mainToolsShown,      \* #main-tools-panel display = block
  \* ---- position inside capture() / renderCameraPreview()
  pc,                  \* "idle", "render" (at the render call), "after"
  op,                  \* "none", "capture", "preview"
  originalVisibilities, \* the handler's local snapshot
  renderCamera,        \* the camera handed to the offscreen render call
  threw,               \* the call ended by an uncaught exception
  preHelper, preMesh, preTc,  \* the flags as they were when the call began
  last,                \* what the most recent handler did, where a property asks
  fsPre,               \* the visibility flags when enterFullscreen was called
  lastHit,             \* the entity owning the nearest mesh of the last click
  \* ---- LEDStudioManager, LEDScreen and the global screen state
  studioFile,          \* what each studio's glTF holds (fixed for a run)
  sceneEnv,            \* environment meshes that are children of the scene
  currentStudioMesh,
  currentStudio,
  disposals,           \* how often disposeStudioMesh has run on each mesh
  disposedTextures,    \* textures on which dispose() has been called
  meshCounter,         \* environment meshes loaded so far
  meshStudio,          \* the studio each loaded mesh came from
  material,            \* the M_WhiteScreen material of each loaded mesh
  screens,             \* the LEDScreen instance made for each mesh
  ledScreen,           \* app.ledScreen: the mesh of the current instance
  globalCustomTexture,
  globalCustomEmissiveTexture,
  globalBrightness,
  switches,            \* switchStudio calls awaiting their load
  switchCounter,
  texLoads,            \* setCustomTexture calls awaiting crop and load
  texCounter,
  sdone,               \* the handler that has just ended, with what it saw
  bindTime,            \* what findTargetMaterial stored, as stored then
  lastApplied,         \* the custom texture applied last, NULL after a reset
  lastSet,             \* the brightness setBrightness set last, if still in force
  \* ---- one SceneObject
  children,            \* the nodes mesh.traverse visits, with their materials
  userData,            \* child.userData of each node
  objectIsSelected,    \* sceneObject.isSelected
  pristine,            \* the nodes as they were before the first select()
  reselected,          \* select() has been called on the selected object
  objLast,             \* how the most recent call on the object ended
  \* ---- inputs and results of the functions checked on their own
  imgWidth, imgHeight, \* the uploaded image, in pixels
  crop,                \* what cropImageTo10x3 computed and drew, NoCrop before
  cinemaCamera,        \* one CinemaCamera: focalLength, sensorSize, camera.fov
  upload,              \* the model upload form and the upload under way
  discovery,           \* LEDStudioManager.loadAvailableStudios under way
  texJob,              \* one setCustomTexture call: reading, decoding, loading the texture
  page,                \* the page script of part_000: its globals
  binding              \* one LEDScreen construction over a studio mesh's materials

appVars == <<sceneObjects, cinemaCameras, cameraCounter, objCounter,
             selectedObject, pinnedCamera, isSelected, hasUnlitChild,
             helperVisible, meshVisible, tcObject, tcVisible, tcMode,
             isFullscreen, overlays, fsLoops, cameraPreviewRenderer, viewportShown,
             mainToolsShown, pc, op, originalVisibilities, renderCamera, threw,
             preHelper, preMesh, preTc, last, fsPre, lastHit>>

studioVars == <<studioFile, sceneEnv, currentStudioMesh, currentStudio,
                disposals, disposedTextures, meshCounter, meshStudio,
                material, screens,
                ledScreen, globalCustomTexture, globalCustomEmissiveTexture,
                globalBrightness, switches, switchCounter, texLoads,
                texCounter, sdone, bindTime, lastApplied, lastSet>>

objectVars == <<children, userData, objectIsSelected, pristine, reselected,
                objLast>>

pureVars == <<imgWidth, imgHeight, crop, cinemaCamera, upload, discovery,
             texJob,
             page,
             binding>>

vars == <<appVars, studioVars, objectVars, pureVars>>

\* ------------------------------------------------------------ helpers
SeqToSet(q) == {q[i] : i \in 1..Len(q)}

RemoveFrom(q, e) == SelectSeq(q, LAMBDA x : x # e)

IsCamera(e) == e \in CamIds
IsSceneObject(e) == e \in ObjIds

NoSnapshot == [cameras |-> << >>, transformControls |-> FALSE]

\* The application as one record, so that handlers compose as in the code.
\* exc: an exception is propagating out of the handler.
Cur ==
  [sceneObjects |-> sceneObjects, cinemaCameras |-> cinemaCameras,
   cameraCounter |-> cameraCounter, objCounter |-> objCounter,
   selectedObject |-> selectedObject, pinnedCamera |-> pinnedCamera,
   isSelected |-> isSelected, hasUnlitChild |-> hasUnlitChild,
   helperVisible |-> helperVisible, meshVisible |-> meshVisible,
   tcObject |-> tcObject, tcVisible |-> tcVisible, tcMode |-> tcMode,
   isFullscreen |-> isFullscreen, overlays |-> overlays, fsLoops |-> fsLoops,
   cameraPreviewRenderer |-> cameraPreviewRenderer,
   viewportShown |-> viewportShown, mainToolsShown |-> mainToolsShown,
   pc |-> pc, op |-> op, originalVisibilities |-> originalVisibilities,
   renderCamera |-> renderCamera,
   threw |-> threw, preHelper |-> preHelper, preMesh |-> preMesh,
   preTc |-> preTc, exc |-> FALSE]

\* A handler's result becomes the next state.  An exception that leaves the
\* handler ends it where it stands (the event loop reports and drops it).
Apply(r) ==
  /\ sceneObjects' = r.sceneObjects
  /\ cinemaCameras' = r.cinemaCameras
  /\ cameraCounter' = r.cameraCounter
  /\ objCounter' = r.objCounter
  /\ selectedObject' = r.selectedObject
  /\ pinnedCamera' = r.pinnedCamera
  /\ isSelected' = r.isSelected
  /\ hasUnlitChild' = r.hasUnlitChild
  /\ helperVisible' = r.helperVisible
  /\ meshVisible' = r.meshVisible
  /\ tcObject' = r.tcObject
  /\ tcVisible' = r.tcVisible
  /\ tcMode' = r.tcMode
  /\ isFullscreen' = r.isFullscreen
  /\ overlays' = r.overlays
  /\ fsLoops' = r.fsLoops
  /\ cameraPreviewRenderer' = r.cameraPreviewRenderer
  /\ viewportShown' = r.viewportShown
  /\ mainToolsShown' = r.mainToolsShown
  /\ pc' = r.pc
  /\ op' = r.op
  /\ originalVisibilities' = r.originalVisibilities
  /\ renderCamera' = r.renderCamera
  /\ threw' = r.threw
  /\ preHelper' = r.preHelper
  /\ preMesh' = r.preMesh
  /\ preTc' = r.preTc
  /\ UNCHANGED <<studioVars, objectVars, pureVars>>

\* The next statement of a handler runs only if none before it threw and the
\* handler is not standing at the render call.
Running(s) == ~s.exc /\ s.pc = "idle"

\* ------------------------------------------------ entities (select/deselect)
\* CinemaCamera.select
CinemaCamera_select(s, e) ==
  IF s.isSelected[e] THEN s
  ELSE [s EXCEPT !.isSelected[e] = TRUE, !.helperVisible[e] = TRUE]

\* CinemaCamera.deselect
CinemaCamera_deselect(s, e) ==
  IF ~s.isSelected[e] THEN s
  ELSE [s EXCEPT !.isSelected[e] = FALSE, !.helperVisible[e] = FALSE]

\* SceneObject.select: children without an emissive channel are skipped.
SceneObject_select(s, e) ==
  IF s.isSelected[e] THEN s ELSE [s EXCEPT !.isSelected[e] = TRUE]

\* SceneObject.deselect: the flag is cleared first; the traversal then calls
\* child.material.emissive.copy(...) on every child with a stored original,
\* which is a TypeError for a child whose material has no emissive.
SceneObject_deselect(s, e) ==
  IF ~s.isSelected[e] THEN s
  ELSE [s EXCEPT !.isSelected[e] = FALSE, !.exc = s.hasUnlitChild[e]]

select(s, e) ==
  IF IsCamera(e) THEN CinemaCamera_select(s, e) ELSE SceneObject_select(s, e)

deselect(s, e) ==
  IF IsCamera(e) THEN CinemaCamera_deselect(s, e) ELSE SceneObject_deselect(s, e)

\* TransformControls.attach / detach (three.js): attach shows the gizmo,
\* detach hides it.
attach(s, e) == [s EXCEPT !.tcObject = e, !.tcVisible = TRUE]

\* TransformControls.detach hiding the gizmo but keeping its object.
detach_HideOnly(s) == [s EXCEPT !.tcVisible = FALSE]

detach(s) == [s EXCEPT !.tcObject = NULL, !.tcVisible = FALSE]

\* TransformControls.setMode
setMode(s, mode) == [s EXCEPT !.tcMode = mode]

\* ------------------------------------------- hide / restore around a render
\* The snapshot both hide routines take: one entry per camera in Map order.
Snapshot(s) ==
  [cameras |-> [i \in 1..Len(s.cinemaCameras) |->
                  [helper |-> s.helperVisible[s.cinemaCameras[i]],
                   mesh |-> s.meshVisible[s.cinemaCameras[i]]]],
   transformControls |-> s.tcVisible]

HideAll(s) ==
  [s EXCEPT !.helperVisible = [c \in CamIds |->
                                 IF c \in SeqToSet(s.cinemaCameras) THEN FALSE
                                 ELSE s.helperVisible[c]],
            !.meshVisible = [c \in CamIds |->
                               IF c \in SeqToSet(s.cinemaCameras) THEN FALSE
                               ELSE s.meshVisible[c]],
            !.tcVisible = FALSE]

\* LEDStageApp.hideCameraVisualsForCapture leaving the proxy meshes shown.
hideCameraVisualsForCapture_NotMeshes(s) ==
  [HideAll(s) EXCEPT !.originalVisibilities = Snapshot(s),
                     !.meshVisible = s.meshVisible]

\* LEDStageApp.hideCameraVisualsForCapture
hideCameraVisualsForCapture(s) ==
  [HideAll(s) EXCEPT !.originalVisibilities = Snapshot(s)]

\* Index of camera c in the Map's iteration order.
IndexOf(q, c) == CHOOSE i \in 1..Len(q) : q[i] = c

RestoreFrom(s, vis) ==
  [s EXCEPT
     !.tcVisible = vis.transformControls,
     !.helperVisible = [c \in CamIds |->
        IF c \in SeqToSet(s.cinemaCameras)
             /\ IndexOf(s.cinemaCameras, c) <= Len(vis.cameras)
          THEN vis.cameras[IndexOf(s.cinemaCameras, c)].helper
          ELSE s.helperVisible[c]],
     !.meshVisible = [c \in CamIds |->
        IF c \in SeqToSet(s.cinemaCameras)
             /\ IndexOf(s.cinemaCameras, c) <= Len(vis.cameras)
          THEN vis.cameras[IndexOf(s.cinemaCameras, c)].mesh
          ELSE s.meshVisible[c]]]

\* restoreCameraVisualsAfterCapture restoring the helpers and the gizmo only.
restoreCameraVisualsAfterCapture_HelpersOnly(s, vis) ==
  [RestoreFrom(s, vis) EXCEPT !.meshVisible = s.meshVisible]

\* LEDStageApp.restoreCameraVisualsAfterCapture
restoreCameraVisualsAfterCapture(s, vis) == RestoreFrom(s, vis)

\* The restore loop at the end of LEDStageApp.renderCameraPreview
restorePreviewVisuals(s, vis) == RestoreFrom(s, vis)

\* The flags as they are when capture()/renderCameraPreview() is entered.
RememberFlags(s) ==
  [s EXCEPT !.preHelper = s.helperVisible, !.preMesh = s.meshVisible,
            !.preTc = s.tcVisible]

\* CinemaCamera.capture, up to the call of captureRenderer.render
capture(s, cam) ==
  [hideCameraVisualsForCapture(RememberFlags(s))
     EXCEPT !.pc = "render", !.op = "capture", !.renderCamera = cam]

\* LEDStageApp.renderCameraPreview preferring the selection to the pin.
renderCameraPreview_SelectionFirst(s) ==
  LET cameraToRender ==
        IF s.selectedObject # NULL THEN s.selectedObject ELSE s.pinnedCamera
  IN IF cameraToRender = NULL \/ ~IsCamera(cameraToRender)
          \/ ~s.cameraPreviewRenderer
       THEN s
       ELSE [HideAll(RememberFlags(s))
               EXCEPT !.originalVisibilities = Snapshot(s),
                      !.pc = "render", !.op = "preview",
                      !.renderCamera = cameraToRender]

\* LEDStageApp.renderCameraPreview, up to the call of render
renderCameraPreview(s) ==
  LET cameraToRender ==
        IF s.pinnedCamera # NULL THEN s.pinnedCamera ELSE s.selectedObject
  IN IF cameraToRender = NULL \/ ~IsCamera(cameraToRender)
          \/ ~s.cameraPreviewRenderer
       THEN s
       ELSE [HideAll(RememberFlags(s))
               EXCEPT !.originalVisibilities = Snapshot(s),
                      !.pc = "render", !.op = "preview",
                      !.renderCamera = cameraToRender]

\* ------------------------------------------------------- panels and preview
\* LEDStageApp.showModelControls
showModelControls(s) ==
  IF s.pinnedCamera = NULL THEN [s EXCEPT !.viewportShown = FALSE] ELSE s

\* LEDStageApp.hideAllControlPanels hiding the viewport whether or not a
\* camera is pinned.
hideAllControlPanels_AlwaysHide(s) == [s EXCEPT !.viewportShown = FALSE]

\* LEDStageApp.hideAllControlPanels
hideAllControlPanels(s) ==
  IF s.pinnedCamera = NULL THEN [s EXCEPT !.viewportShown = FALSE] ELSE s

\* LEDStageApp.showCameraPreview
showCameraPreview(s) ==
  IF s.selectedObject = NULL \/ ~IsCamera(s.selectedObject) THEN s
  ELSE renderCameraPreview([s EXCEPT !.viewportShown = TRUE,
                                     !.cameraPreviewRenderer = TRUE])

\* ---------------------------------------------------------------- selection
\* LEDStageApp.selectObject without the deselection of the previous entity.
selectObject_NoDeselect(s, object) ==
  IF s.selectedObject = object THEN s
  ELSE LET s2 == select([s EXCEPT !.selectedObject = object], object)
       IN IF IsSceneObject(object)
            THEN showModelControls(attach(s2, object))
            ELSE showCameraPreview(attach(s2, object))

\* LEDStageApp.selectObject
selectObject(s, object) ==
  IF s.selectedObject = object THEN s
  ELSE LET s1 == IF s.selectedObject # NULL
                   THEN deselect(s, s.selectedObject) ELSE s
       IN IF ~Running(s1) THEN s1
          ELSE LET s2 == select([s1 EXCEPT !.selectedObject = object], object)
                   s3 == setMode(attach(s2, object), "translate")
               IN IF IsSceneObject(object)
                    THEN showModelControls(s3)
                    ELSE showCameraPreview(s3)

\* LEDStageApp.deselectAll
deselectAll(s) ==
  LET s1 == IF s.selectedObject # NULL
              THEN LET d == deselect(s, s.selectedObject)
                   IN IF Running(d) THEN [d EXCEPT !.selectedObject = NULL]
                      ELSE d
              ELSE s
  IN IF ~Running(s1) THEN s1 ELSE hideAllControlPanels(detach(s1))

\* ------------------------------------------------------------------ picking
\* A node of the scene graph under an entity: depth 0 is the entity's own
\* mesh field (cam.mesh, the Mesh the raycaster hits; sceneObject.mesh, the
\* Group GLTFLoader returns), depth d > 0 a descendant d levels below it.
SceneNode == [owner |-> NULL, depth |-> 0]

ParentOf(n) == IF n.depth > 0 THEN [n EXCEPT !.depth = @ - 1] ELSE SceneNode

HasParent(n) == n # SceneNode

\* LEDStageApp.isChildOf
RECURSIVE isChildOf(_, _)
isChildOf(child, parent) ==
  IF HasParent(child)
    THEN IF ParentOf(child) = parent THEN TRUE
         ELSE isChildOf(ParentOf(child), parent)
    ELSE child = parent

\* The meshes raycaster.intersectObjects(selectableObjects, true) can return:
\* the proxy mesh of a tracked camera, a mesh below the root of a tracked
\* model.
HitNodes(s) ==
  {[owner |-> c, depth |-> 0] : c \in SeqToSet(s.cinemaCameras)}
    \cup {[owner |-> o, depth |-> d] :
            o \in SeqToSet(s.sceneObjects), d \in 1..MaxDepth}

HitLists(s) == UNION {[1..n -> HitNodes(s)] : n \in 0..MaxHits}

\* Array.find: the first entry of q that is in S, NULL when there is none.
FirstWhere(q, S) ==
  LET ok == {i \in 1..Len(q) : q[i] \in S}
  IN IF ok = {} THEN NULL
     ELSE q[CHOOSE i \in ok : \A j \in ok : i <= j]

\* LEDStageApp.onMouseClick
onMouseClick(s, intersects) ==
  IF Len(intersects) > 0
    THEN LET clickedObject == intersects[1]
             camera == FirstWhere(s.cinemaCameras,
                         {c \in SeqToSet(s.cinemaCameras) :
                            [owner |-> c, depth |-> 0] = clickedObject})
             sceneObj == FirstWhere(s.sceneObjects,
                           {o \in SeqToSet(s.sceneObjects) :
                              isChildOf(clickedObject,
                                        [owner |-> o, depth |-> 0])})
             targetObject == IF camera # NULL THEN camera ELSE sceneObj
         IN IF targetObject # NULL THEN selectObject(s, targetObject)
            ELSE deselectAll(s)
    ELSE deselectAll(s)

\* ------------------------------------------------------------------- pinning
\* LEDStageApp.pinCameraPreview
pinCameraPreview(s) ==
  IF s.selectedObject # NULL /\ IsCamera(s.selectedObject)
    THEN [s EXCEPT !.pinnedCamera = s.selectedObject]
    ELSE s

\* LEDStageApp.unpinCameraPreview hiding the preview whether or not a camera
\* was pinned.
unpinCameraPreview_HidesPreview(s) ==
  [s EXCEPT !.pinnedCamera = NULL, !.viewportShown = FALSE]

\* LEDStageApp.unpinCameraPreview
unpinCameraPreview(s) ==
  IF s.pinnedCamera # NULL
    THEN [s EXCEPT !.pinnedCamera = NULL,
                   !.viewportShown =
                      IF s.selectedObject = NULL \/ ~IsCamera(s.selectedObject)
                        THEN FALSE ELSE s.viewportShown]
    ELSE s

\* LEDStageApp.togglePinCameraPreview
togglePinCameraPreview(s) ==
  IF s.pinnedCamera # NULL THEN unpinCameraPreview(s) ELSE pinCameraPreview(s)

\* -------------------------------------------------------------------- delete
\* LEDStageApp.deleteSelectedObject leaving the entity in its collection.
deleteSelectedObject_KeepsTracked(s) ==
  IF s.selectedObject = NULL THEN s
  ELSE [hideAllControlPanels(detach(s)) EXCEPT !.selectedObject = NULL]

\* LEDStageApp.deleteSelectedObject without the unpin of a pinned camera.
deleteSelectedObject_NoUnpin(s) ==
  IF s.selectedObject = NULL THEN s
  ELSE LET sel == s.selectedObject
           s1 == IF IsSceneObject(sel)
                   THEN [s EXCEPT !.sceneObjects = RemoveFrom(@, sel)]
                   ELSE [s EXCEPT !.cinemaCameras = RemoveFrom(@, sel)]
       IN [hideAllControlPanels(detach(s1)) EXCEPT !.selectedObject = NULL]

\* LEDStageApp.deleteSelectedObject
deleteSelectedObject(s) ==
  IF s.selectedObject = NULL THEN s
  ELSE LET sel == s.selectedObject
           s1 == IF IsSceneObject(sel)
                   THEN [s EXCEPT !.sceneObjects = RemoveFrom(@, sel)]
                   ELSE LET u == IF s.pinnedCamera = sel
                                   THEN unpinCameraPreview(s) ELSE s
                        IN [u EXCEPT !.cinemaCameras = RemoveFrom(@, sel)]
       IN [hideAllControlPanels(detach(s1)) EXCEPT !.selectedObject = NULL]

\* ---------------------------------------------------------------- fullscreen
\* One run of the renderFullscreen closure of enterFullscreen: it hides the
\* camera visuals and reschedules itself while fullscreen shows a camera.
renderFullscreen(s) ==
  IF s.isFullscreen /\ s.selectedObject # NULL /\ IsCamera(s.selectedObject)
    THEN HideAll(s)
    ELSE [s EXCEPT !.fsLoops = @ - 1]

\* LEDStageApp.enterFullscreen
enterFullscreen(s) ==
  IF s.selectedObject = NULL \/ ~IsCamera(s.selectedObject) THEN s
  ELSE renderFullscreen(
         [s EXCEPT !.isFullscreen = TRUE,
                   !.mainToolsShown = FALSE,
                   !.viewportShown = IF s.pinnedCamera = NULL THEN FALSE ELSE @,
                   !.overlays = @ + 1,
                   !.fsLoops = @ + 1])

\* LEDStageApp.exitFullscreen
exitFullscreen(s) ==
  IF ~s.isFullscreen THEN s
  ELSE LET s1 == [s EXCEPT !.isFullscreen = FALSE,
                           !.overlays = IF @ > 0 THEN @ - 1 ELSE @,
                           !.mainToolsShown = TRUE]
       IN IF s.selectedObject # NULL /\ IsCamera(s.selectedObject)
            THEN [s1 EXCEPT !.viewportShown = TRUE,
                            !.helperVisible[s.selectedObject] = TRUE,
                            !.meshVisible[s.selectedObject] = TRUE,
                            !.tcVisible = TRUE]
            ELSE s1

\* ------------------------------------------------------------------ keyboard
Keys == {"Escape", "delete", "g", "r", "s", "f", "c"}

\* LEDStageApp.onKeyDown
onKeyDown(s, key) ==
  IF key = "Escape"
    THEN IF s.isFullscreen THEN exitFullscreen(s) ELSE deselectAll(s)
  ELSE IF s.selectedObject = NULL THEN s
  ELSE LET s0 == IF key = "delete" THEN deleteSelectedObject(s)
                 ELSE IF key = "g" THEN setMode(s, "translate")
                 ELSE IF key = "r" THEN setMode(s, "rotate")
                 ELSE s
           s1 == IF s0.selectedObject # NULL /\ IsSceneObject(s0.selectedObject)
                    /\ key = "s"
                   THEN setMode(s0, "scale") ELSE s0
       IN IF s1.selectedObject # NULL /\ IsCamera(s1.selectedObject)
            THEN IF key = "f" THEN enterFullscreen(s1)
                 ELSE IF key = "c" THEN capture(s1, s1.selectedObject)
                 ELSE s1
            ELSE s1

\* LEDStageApp.createCinemaCamera
createCinemaCamera(s) ==
  LET camera == <<"cam", s.cameraCounter>>
  IN [s EXCEPT !.cameraCounter = @ + 1,
               !.cinemaCameras = Append(@, camera),
               !.isSelected[camera] = FALSE,
               !.helperVisible[camera] = FALSE,
               !.meshVisible[camera] = TRUE]

\* The load callback of LEDStageApp.loadGLTFModel / loadPropFromLibrary
modelLoaded(s, unlit) ==
  LET obj == <<"obj", s.objCounter + 1>>
  IN [s EXCEPT !.objCounter = @ + 1,
               !.sceneObjects = Append(@, obj),
               !.isSelected[obj] = FALSE,
               !.hasUnlitChild[obj] = unlit]

\* =================================================================== Spec
\* fsPre outside fullscreen
NoFs == [helper |-> << >>, mesh |-> << >>, tc |-> FALSE]

\* The visibility flags as they are now.
FlagsNow == [helper |-> helperVisible, mesh |-> meshVisible, tc |-> tcVisible]

\* fsPre is kept from enterFullscreen until the handler after exitFullscreen.
KeepFs == fsPre' = IF isFullscreen' THEN fsPre ELSE NoFs

\* lastHit is kept while the click's handler (with its preview render) lasts.
NoClick == lastHit' = IF pc = "idle" THEN NULL ELSE lastHit

NoFlags == [c \in CamIds |-> FALSE]

InitApp ==
  /\ sceneObjects = << >>
  /\ cinemaCameras = << >>
  /\ cameraCounter = 1
  /\ objCounter = 0
  /\ selectedObject = NULL
  /\ pinnedCamera = NULL
  /\ isSelected = [e \in EntityIds |-> FALSE]
  /\ hasUnlitChild = [e \in ObjIds |-> FALSE]
  /\ helperVisible = [c \in CamIds |-> FALSE]
  /\ meshVisible = [c \in CamIds |-> TRUE]
  /\ tcObject = NULL
  /\ tcVisible = FALSE
  /\ tcMode = "translate"
  /\ isFullscreen = FALSE
  /\ overlays = 0
  /\ fsLoops = 0
  /\ cameraPreviewRenderer = FALSE
  /\ viewportShown = FALSE
  /\ mainToolsShown = TRUE
  /\ pc = "idle"
  /\ op = "none"
  /\ originalVisibilities = NoSnapshot
  /\ renderCamera = NULL
  /\ threw = FALSE
  /\ preHelper = NoFlags
  /\ preMesh = NoFlags
  /\ preTc = FALSE
  /\ last = "other"
  /\ fsPre = NoFs
  /\ lastHit = NULL

Tracked == SeqToSet(sceneObjects) \cup SeqToSet(cinemaCameras)

\* What a delete request is about to do, for the properties about deletion.
DeleteTag ==
  IF selectedObject = NULL THEN "other"
  ELSE IF pinnedCamera = selectedObject THEN "deletedPinned"
  ELSE "deleted"

\* A click on the canvas: intersects is the raycaster's hit list, nearest
\* first.  The fullscreen overlay covers the canvas.
MouseClick ==
  /\ pc = "idle"
  /\ overlays = 0
  /\ \E intersects \in HitLists(Cur) :
       /\ Apply(onMouseClick(Cur, intersects))
       /\ lastHit' = IF Len(intersects) > 0 THEN intersects[1].owner ELSE NULL
  /\ last' = "click"
  /\ KeepFs

KeyDown ==
  /\ pc = "idle"
  /\ \E key \in Keys :
       /\ key = "f" => (overlays < MaxOverlays /\ fsLoops < MaxLoops)
       /\ Apply(onKeyDown(Cur, key))
       /\ last' = IF key = "delete" THEN DeleteTag
                  ELSE IF key = "Escape" /\ isFullscreen THEN "exitedFullscreen"
                  ELSE IF key = "Escape" THEN "escaped"
                  ELSE "other"
       /\ fsPre' = IF key = "f" /\ selectedObject # NULL /\ IsCamera(selectedObject)
                     THEN FlagsNow
                   ELSE IF key = "Escape" /\ isFullscreen THEN fsPre
                   ELSE IF isFullscreen' THEN fsPre ELSE NoFs
  /\ NoClick

\* #add-camera-btn, in the main tools panel
ClickAddCamera ==
  /\ pc = "idle"
  /\ mainToolsShown
  /\ cameraCounter <= MaxCams
  /\ Apply(createCinemaCamera(Cur))
  /\ last' = "other"
  /\ KeepFs
  /\ NoClick

\* A model or prop load completes.
ModelLoaded ==
  /\ pc = "idle"
  /\ objCounter < MaxObjs
  /\ \E unlit \in BOOLEAN : Apply(modelLoaded(Cur, unlit))
  /\ last' = "other"
  /\ KeepFs
  /\ NoClick

\* #delete-model-btn / #delete-camera-btn: app.deleteSelectedObject(), which
\* tests the selection itself
ClickDelete ==
  /\ pc = "idle"
  /\ Apply(deleteSelectedObject(Cur))
  /\ last' = DeleteTag
  /\ KeepFs
  /\ NoClick

\* The model panel's mode buttons without the test of the selection's class.
modelModeButton_AnySelection(s, mode) ==
  IF s.selectedObject # NULL THEN setMode(s, mode) ELSE s

\* #move-mode-btn, #rotate-mode-btn, #scale-mode-btn of the model panel
modelModeButton(s, mode) ==
  IF s.selectedObject # NULL /\ IsSceneObject(s.selectedObject)
    THEN setMode(s, mode) ELSE s

\* #camera-move-btn, #camera-rotate-btn of the camera panel
cameraModeButton(s, mode) ==
  IF s.selectedObject # NULL /\ IsCamera(s.selectedObject)
    THEN setMode(s, mode) ELSE s

ClickModelMode ==
  /\ pc = "idle"
  /\ selectedObject # NULL
  /\ \E mode \in {"translate", "rotate", "scale"} :
       Apply(modelModeButton(Cur, mode))
  /\ last' = "other"
  /\ KeepFs
  /\ NoClick

ClickCameraMode ==
  /\ pc = "idle"
  /\ selectedObject # NULL
  /\ \E mode \in {"translate", "rotate"} :
       Apply(cameraModeButton(Cur, mode))
  /\ last' = "other"
  /\ KeepFs
  /\ NoClick

\* #capture-btn
ClickCapture ==
  /\ pc = "idle"
  /\ selectedObject # NULL /\ IsCamera(selectedObject)
  /\ Apply(capture(Cur, selectedObject))
  /\ last' = "other"
  /\ KeepFs
  /\ NoClick

\* #fullscreen-btn
ClickFullscreen ==
  /\ pc = "idle"
  /\ selectedObject # NULL /\ IsCamera(selectedObject)
  /\ isFullscreen \/ (overlays < MaxOverlays /\ fsLoops < MaxLoops)
  /\ Apply(IF isFullscreen THEN exitFullscreen(Cur) ELSE enterFullscreen(Cur))
  /\ last' = IF isFullscreen THEN "exitedFullscreen" ELSE "other"
  /\ fsPre' = IF isFullscreen THEN fsPre ELSE FlagsNow
  /\ NoClick

\* #pin-preview-btn
ClickPin ==
  /\ pc = "idle"
  /\ Apply(togglePinCameraPreview(Cur))
  /\ last' = "other"
  /\ KeepFs
  /\ NoClick

\* app.unpinCameraPreview() called on its own, a camera pinned or not
Unpin ==
  /\ pc = "idle"
  /\ Apply(unpinCameraPreview(Cur))
  /\ last' = IF pinnedCamera # NULL THEN "other"
             ELSE IF last = "deletedPinned" THEN "unpinAfterDeletePinned"
             ELSE "unpinNoPin"
  /\ KeepFs
  /\ NoClick

\* LEDStageApp.animate after the main render
animate(s) ==
  IF s.cameraPreviewRenderer
       /\ ((s.selectedObject # NULL /\ IsCamera(s.selectedObject))
           \/ s.pinnedCamera # NULL)
    THEN renderCameraPreview(s)
    ELSE s

\* LEDStageApp.animate: one main frame; the preview is rendered while a
\* camera is selected or pinned.
Animate ==
  /\ pc = "idle"
  /\ Apply(animate(Cur))
  /\ last' = "other"
  /\ KeepFs
  /\ NoClick

\* One scheduled run of a renderFullscreen closure.
FullscreenFrame ==
  /\ pc = "idle"
  /\ fsLoops > 0
  /\ Apply(renderFullscreen(Cur))
  /\ last' = "other"
  /\ KeepFs
  /\ NoClick

\* The offscreen render (and, for capture, the encode) succeeds: the call
\* restores the flags from its snapshot and returns.
RenderOk ==
  /\ pc = "render"
  /\ Apply([(IF op = "capture"
               THEN restoreCameraVisualsAfterCapture(Cur, originalVisibilities)
               ELSE restorePreviewVisuals(Cur, originalVisibilities))
             EXCEPT !.pc = "after", !.threw = FALSE])
  /\ UNCHANGED last
  /\ KeepFs
  /\ NoClick

\* The render or the encode throws: nothing after it in the call runs.
RenderThrows ==
  /\ pc = "render"
  /\ Apply([Cur EXCEPT !.pc = "after", !.threw = TRUE])
  /\ UNCHANGED last
  /\ KeepFs
  /\ NoClick

\* The handler is over; its locals are gone.
Return ==
  /\ pc = "after"
  /\ Apply([Cur EXCEPT !.pc = "idle", !.op = "none", !.threw = FALSE,
                       !.originalVisibilities = NoSnapshot,
                       !.renderCamera = NULL,
                       !.preHelper = NoFlags, !.preMesh = NoFlags,
                       !.preTc = FALSE])
  /\ UNCHANGED last
  /\ KeepFs
  /\ NoClick

Next ==
  \/ MouseClick
  \/ KeyDown
  \/ ClickAddCamera
  \/ ModelLoaded
  \/ ClickDelete
  \/ ClickModelMode
  \/ ClickCameraMode
  \/ ClickCapture
  \/ ClickFullscreen
  \/ ClickPin
  \/ Unpin
  \/ Animate
  \/ FullscreenFrame
  \/ RenderOk
  \/ RenderThrows
  \/ Return


\* ======================================================= SpecClassVariant
\* The class-based page in src/unnamed/part_000 (LEDStageApp and its
\* entities, from line 1238 on).  Its handlers are those of main_oop.js
\* except the ones below; it has no 'f' and no 'c' key.

\* LEDStageApp.showModelControls of part_000: the viewport is hidden whether
\* or not a camera is pinned.
Part000_showModelControls(s) == [s EXCEPT !.viewportShown = FALSE]

\* LEDStageApp.selectObject of part_000
Part000_selectObject(s, object) ==
  IF s.selectedObject = object THEN s
  ELSE LET s1 == IF s.selectedObject # NULL
                   THEN deselect(s, s.selectedObject) ELSE s
       IN IF ~Running(s1) THEN s1
          ELSE LET s2 == select([s1 EXCEPT !.selectedObject = object], object)
                   s3 == setMode(attach(s2, object), "translate")
               IN IF IsSceneObject(object)
                    THEN Part000_showModelControls(s3)
                    ELSE showCameraPreview(s3)

\* LEDStageApp.onMouseClick of part_000
Part000_onMouseClick(s, intersects) ==
  IF Len(intersects) > 0
    THEN LET clickedObject == intersects[1]
             camera == FirstWhere(s.cinemaCameras,
                         {c \in SeqToSet(s.cinemaCameras) :
                            [owner |-> c, depth |-> 0] = clickedObject})
             sceneObj == FirstWhere(s.sceneObjects,
                           {o \in SeqToSet(s.sceneObjects) :
                              isChildOf(clickedObject,
                                        [owner |-> o, depth |-> 0])})
             targetObject == IF camera # NULL THEN camera ELSE sceneObj
         IN IF targetObject # NULL THEN Part000_selectObject(s, targetObject)
            ELSE deselectAll(s)
    ELSE deselectAll(s)

\* CinemaCamera.hideCameraVisuals of part_000: returns an empty list and
\* touches nothing.
Part000_hideCameraVisuals(s) == [s EXCEPT !.originalVisibilities = NoSnapshot]

\* CinemaCamera.restoreCameraVisuals of part_000: an empty body.
Part000_restoreCameraVisuals(s, vis) == s

\* CinemaCamera.capture of part_000, up to the call of captureRenderer.render
Part000_capture(s, cam) ==
  [Part000_hideCameraVisuals(RememberFlags(s))
     EXCEPT !.pc = "render", !.op = "capture", !.renderCamera = cam]

Part000_Keys == Keys \ {"f", "c"}

Part000_MouseClick ==
  /\ pc = "idle"
  /\ overlays = 0
  /\ \E intersects \in HitLists(Cur) :
       /\ Apply(Part000_onMouseClick(Cur, intersects))
       /\ lastHit' = IF Len(intersects) > 0 THEN intersects[1].owner ELSE NULL
  /\ last' = "click"
  /\ KeepFs

\* LEDStageApp.onKeyDown of part_000: the keys it knows are handled as in
\* main_oop.js.
Part000_KeyDown ==
  /\ pc = "idle"
  /\ \E key \in Part000_Keys :
       /\ Apply(onKeyDown(Cur, key))
       /\ last' = IF key = "delete" THEN DeleteTag
                  ELSE IF key = "Escape" /\ isFullscreen THEN "exitedFullscreen"
                  ELSE IF key = "Escape" THEN "escaped"
                  ELSE "other"
  /\ KeepFs
  /\ NoClick

\* #capture-btn of part_000
Part000_ClickCapture ==
  /\ pc = "idle"
  /\ selectedObject # NULL /\ IsCamera(selectedObject)
  /\ Apply(Part000_capture(Cur, selectedObject))
  /\ last' = "other"
  /\ KeepFs
  /\ NoClick

\* The offscreen render succeeds: capture() calls its restoreCameraVisuals,
\* renderCameraPreview() runs its restore loop.
Part000_RenderOk ==
  /\ pc = "render"
  /\ Apply([(IF op = "capture"
               THEN Part000_restoreCameraVisuals(Cur, originalVisibilities)
               ELSE restorePreviewVisuals(Cur, originalVisibilities))
             EXCEPT !.pc = "after", !.threw = FALSE])
  /\ UNCHANGED last
  /\ KeepFs
  /\ NoClick

NextClassVariant ==
  \/ Part000_MouseClick
  \/ Part000_KeyDown
  \/ ClickAddCamera
  \/ ModelLoaded
  \/ ClickDelete
  \/ ClickModelMode
  \/ ClickCameraMode
  \/ Part000_ClickCapture
  \/ ClickFullscreen
  \/ ClickPin
  \/ Animate
  \/ FullscreenFrame
  \/ Part000_RenderOk
  \/ RenderThrows
  \/ Return

\* ============================================================== SpecObject
\* One SceneObject and the children its mesh.traverse visits, in traversal
\* order.  Intensities are in tenths.
MaxChildren == 2    \* nodes under the placed model's root

HighlightHex == "0x333333"
HighlightIntensity == 3
Black == "0x000000"
Undefined == 0 - 1

Colours == {Black, HighlightHex, "0xff0000"}
Intensities == {0, HighlightIntensity, 10}

\* A node of the model: a group (no mesh), a mesh whose material has no
\* emissive (MeshBasicMaterial, or an array of materials), or a mesh with an
\* emissive colour and intensity.
Group == [isMesh |-> FALSE, hasEmissive |-> FALSE, emissive |-> "undefined",
          emissiveIntensity |-> Undefined]

Unlit == [isMesh |-> TRUE, hasEmissive |-> FALSE, emissive |-> "undefined",
          emissiveIntensity |-> Undefined]

Nodes ==
  {Group, Unlit}
    \cup {[isMesh |-> TRUE, hasEmissive |-> TRUE, emissive |-> c,
           emissiveIntensity |-> i] : c \in Colours, i \in Intensities}

Models == UNION {[1..n -> Nodes] : n \in 1..MaxChildren}

NoUserData == [has |-> FALSE, originalEmissive |-> Black,
               originalEmissiveIntensity |-> 0]

\* child.material.emissiveIntensity || 0
OrZero(i) == IF i = Undefined THEN 0 ELSE i

\* SceneObject.storeOriginalMaterials
storeOriginalMaterials(ch, ud) ==
  [i \in 1..Len(ch) |->
     IF ch[i].isMesh /\ ~ud[i].has
       THEN [has |-> TRUE,
             originalEmissive |-> IF ch[i].hasEmissive THEN ch[i].emissive
                                  ELSE Black,
             originalEmissiveIntensity |-> OrZero(ch[i].emissiveIntensity)]
       ELSE ud[i]]

\* The traversal inside SceneObject.select
select_traverse(ch) ==
  [i \in 1..Len(ch) |->
     IF ch[i].isMesh /\ ch[i].hasEmissive
       THEN [ch[i] EXCEPT !.emissive = HighlightHex,
                          !.emissiveIntensity = HighlightIntensity]
       ELSE ch[i]]

\* The first node at which the traversal inside SceneObject.deselect reads
\* child.material.emissive.copy of a material without emissive; Len(ch) + 1
\* when there is none.
FirstThrow(ch, ud) ==
  LET bad == {i \in 1..Len(ch) : ch[i].isMesh /\ ud[i].has /\ ~ch[i].hasEmissive}
  IN IF bad = {} THEN Len(ch) + 1
     ELSE CHOOSE i \in bad : \A j \in bad : i <= j

\* The traversal inside SceneObject.deselect: the nodes before the throwing
\* one are restored, the others are not reached.
deselect_traverse(ch, ud) ==
  [i \in 1..Len(ch) |->
     IF i < FirstThrow(ch, ud) /\ ch[i].isMesh /\ ud[i].has
       THEN [ch[i] EXCEPT !.emissive = ud[i].originalEmissive,
                          !.emissiveIntensity = ud[i].originalEmissiveIntensity]
       ELSE ch[i]]

InitObjectVars(model) ==
  /\ children = model
  /\ userData = storeOriginalMaterials(model, [i \in 1..Len(model) |-> NoUserData])
  /\ objectIsSelected = FALSE
  /\ pristine = model
  /\ reselected = FALSE
  /\ objLast = "none"

\* sceneObject.select()
ObjectSelect ==
  /\ IF objectIsSelected
       THEN /\ reselected' = TRUE
            /\ UNCHANGED <<children, objectIsSelected>>
       ELSE /\ objectIsSelected' = TRUE
            /\ children' = select_traverse(children)
            /\ UNCHANGED reselected
  /\ objLast' = "select"
  /\ UNCHANGED <<userData, pristine, appVars, studioVars, pureVars>>

\* sceneObject.deselect()
ObjectDeselect ==
  /\ IF ~objectIsSelected
       THEN /\ objLast' = "deselect"
            /\ UNCHANGED <<children, objectIsSelected>>
       ELSE /\ objectIsSelected' = FALSE
            /\ children' = deselect_traverse(children, userData)
            /\ objLast' = IF FirstThrow(children, userData) <= Len(children)
                            THEN "deselectThrew" ELSE "deselect"
  /\ UNCHANGED <<userData, pristine, reselected, appVars, studioVars, pureVars>>

NextObject ==
  \/ ObjectSelect
  \/ ObjectDeselect

\* ============================================================== SpecCamera
\* The lens settings of one CinemaCamera.  camera.fov is
\* 2 * atan(sensorSize / (2 * focalLength)) in degrees; atan is one-to-one, so
\* the angle is held as the argument of atan in lowest terms: two angles are
\* equal exactly when these fractions are.
MaxFocalLength == 12    \* focal lengths the slider can give
MaxSensorSize == 12     \* sensor sizes the slider can give

DefaultFocalLength == 50
DefaultSensorSize == 24

FocalLengths == (1..MaxFocalLength) \cup {DefaultFocalLength}
SensorSizes == (1..MaxSensorSize) \cup {DefaultSensorSize}

RECURSIVE GCD(_, _)
GCD(a, b) == IF b = 0 THEN a ELSE GCD(b, a % b)

\* 2 * Math.atan(sensorSize / (2 * focalLength)) * 180 / Math.PI
FovDegrees(sensorSize, focalLength) ==
  LET g == GCD(sensorSize, 2 * focalLength)
  IN [num |-> sensorSize \div g, den |-> (2 * focalLength) \div g]

\* The 75 degrees the constructor hands to THREE.PerspectiveCamera: the
\* angle of no pair of slider values.
PerspectiveCameraFov == [num |-> 0, den |-> 0]

updateCameraSettings(c) ==
  [c EXCEPT !.fov = FovDegrees(c.sensorSize, c.focalLength)]

setFocalLength(c, length) ==
  updateCameraSettings([c EXCEPT !.focalLength = length])

setSensorSize_NoUpdate(c, size) == [c EXCEPT !.sensorSize = size]

setSensorSize(c, size) ==
  updateCameraSettings([c EXCEPT !.sensorSize = size])

\* new CinemaCamera(name)
NewCinemaCamera ==
  updateCameraSettings([focalLength |-> DefaultFocalLength,
                        sensorSize |-> DefaultSensorSize,
                        fov |-> PerspectiveCameraFov,
                        last |-> "constructed"])

\* The focal-length slider
FocalLengthInput ==
  /\ \E length \in FocalLengths :
       cinemaCamera' = [setFocalLength(cinemaCamera, length)
                          EXCEPT !.last = "setFocalLength"]
  /\ UNCHANGED <<imgWidth, imgHeight, crop, upload, discovery, texJob, page,
                 binding, appVars, studioVars, objectVars>>

\* The sensor-size slider
SensorSizeInput ==
  /\ \E size \in SensorSizes :
       cinemaCamera' = [setSensorSize(cinemaCamera, size)
                          EXCEPT !.last = "setSensorSize"]
  /\ UNCHANGED <<imgWidth, imgHeight, crop, upload, discovery, texJob, page,
                 binding, appVars, studioVars, objectVars>>

NextCamera ==
  \/ FocalLengthInput
  \/ SensorSizeInput

\* ============================================================== SpecUpload
\* Uploading a model file.  The repository holds two upload flows:
\* placeUploadedModel of the page script (src/unnamed/part_000) and
\* LEDStageApp.loadGLTFModel with its button handler (src/main_oop.js).
MaxUploads == 2       \* uploads made one after the other

Flows == {"placeUploadedModel", "loadGLTFModel"}

\* A chosen file: its extension, whether its text parses as JSON, and whether
\* its description names a buffer or an image by a URI that is not data:.
\* A .glb is one binary container.
UploadFiles ==
  [ext : {"gltf"}, parses : BOOLEAN, externalBuffer : BOOLEAN,
   externalImage : BOOLEAN]
  \cup [ext : {"glb"}, parses : BOOLEAN, externalBuffer : {FALSE},
        externalImage : {FALSE}]

NoFile == [ext |-> "none", parses |-> FALSE, externalBuffer |-> FALSE,
           externalImage |-> FALSE]

\* stage: "empty" nothing chosen, "chosen" a file is in the form, "reading"
\* the FileReader is reading it, "loading" GLTFLoader.load is under way,
\* "done" the flow has ended.
NoUpload ==
  [flow |-> "placeUploadedModel", file |-> NoFile, stage |-> "empty",
   formFile |-> FALSE, buttonDisabled |-> TRUE, placed |-> 0, prePlaced |-> 0,
   loadStarted |-> FALSE, alerted |-> FALSE, uploads |-> 0]

\* resetUploadForm() of the page script; the same three assignments close
\* the click handler of main_oop.js
resetUploadForm(u) == [u EXCEPT !.formFile = FALSE, !.buttonDisabled = TRUE]

\* What GLTFLoader.load of the object URL can end in.  A relative URI cannot
\* be resolved against a blob: URL.  A missing buffer fails the load; a
\* missing image fails it or leaves the texture out, by loader version.
LoadOutcomes(file) ==
  IF ~file.parses \/ file.externalBuffer THEN {"error"}
  ELSE IF file.externalImage THEN {"loaded", "error"}
  ELSE {"loaded"}

\* gltfInput 'change' with a file
FileChosen ==
  /\ upload.stage \in {"empty", "done"}
  /\ upload.uploads < MaxUploads
  /\ \E flow \in Flows, file \in UploadFiles :
       upload' = [upload EXCEPT !.flow = flow, !.file = file,
                                !.stage = "chosen", !.formFile = TRUE,
                                !.buttonDisabled = FALSE,
                                !.prePlaced = upload.placed,
                                !.loadStarted = FALSE, !.alerted = FALSE,
                                !.uploads = @ + 1]
  /\ UNCHANGED <<imgWidth, imgHeight, crop, cinemaCamera, discovery, texJob,
                 page, binding, appVars, studioVars, objectVars>>

\* loadGltfFromBlob(file) up to modelLoader.load
loadGltfFromBlob(u) == [u EXCEPT !.stage = "loading", !.loadStarted = TRUE]

\* placeUploadedModel(file): a .gltf is read as text first, a .glb is loaded
placeUploadedModel(u) ==
  IF u.file.ext = "gltf" THEN [u EXCEPT !.stage = "reading"]
  ELSE loadGltfFromBlob(u)

\* LEDStageApp.loadGLTFModel(file) up to loader.load
loadGLTFModel(u) == [u EXCEPT !.stage = "loading", !.loadStarted = TRUE]

\* placeModelButton 'click'
PlaceModelClick ==
  /\ upload.stage = "chosen"
  /\ upload' = IF upload.flow = "placeUploadedModel"
                 THEN placeUploadedModel(upload)
                 ELSE resetUploadForm(loadGLTFModel(upload))
  /\ UNCHANGED <<imgWidth, imgHeight, crop, cinemaCamera, discovery, texJob,
                 page, binding, appVars, studioVars, objectVars>>

\* reader.onload of placeUploadedModel
readerOnload(u) ==
  IF ~u.file.parses
    THEN resetUploadForm([u EXCEPT !.alerted = TRUE, !.stage = "done"])
  ELSE IF u.file.externalBuffer
    THEN resetUploadForm([u EXCEPT !.alerted = TRUE, !.stage = "done"])
  ELSE loadGltfFromBlob(u)

ReaderLoaded ==
  /\ upload.stage = "reading"
  /\ upload' = readerOnload(upload)
  /\ UNCHANGED <<imgWidth, imgHeight, crop, cinemaCamera, discovery, texJob,
                 page, binding, appVars, studioVars, objectVars>>

\* The success and error callbacks of the two load calls
loaderCallback(u, outcome) ==
  IF u.flow = "placeUploadedModel"
    THEN IF outcome = "loaded"
           THEN resetUploadForm([u EXCEPT !.placed = @ + 1, !.stage = "done"])
           ELSE resetUploadForm([u EXCEPT !.alerted = TRUE, !.stage = "done"])
    ELSE IF outcome = "loaded"
           THEN [u EXCEPT !.placed = @ + 1, !.stage = "done"]
           ELSE [u EXCEPT !.stage = "done"]

LoaderDone ==
  /\ upload.stage = "loading"
  /\ \E outcome \in LoadOutcomes(upload.file) :
       upload' = loaderCallback(upload, outcome)
  /\ UNCHANGED <<imgWidth, imgHeight, crop, cinemaCamera, discovery, texJob,
                 page, binding, appVars, studioVars, objectVars>>

NextUpload ==
  \/ FileChosen
  \/ PlaceModelClick
  \/ ReaderLoaded
  \/ LoaderDone

\* =========================================================== SpecDiscovery
\* LEDStudioManager.loadAvailableStudios: each known studio's file is probed
\* with a HEAD request, one after the other.
knownStudios == <<"MADRID_15X5", "BARCELONA">>

KnownNames == {knownStudios[i] : i \in DOMAIN knownStudios}

\* How a probe can end: an HTTP status, or the fetch rejecting.
ProbeOutcomes == {"200", "204", "403", "404", "500", "rejected"}

\* response.ok
ResponseOk(outcome) == outcome \in {"200", "204"}

\* LEDStudioManager.checkFileExists treating every answer as the file.
checkFileExists_AnyResponse(outcome) ==
  [value |-> outcome # "rejected", exc |-> FALSE]

\* LEDStudioManager.checkFileExists: a rejected fetch is caught
checkFileExists(outcome) ==
  IF outcome = "rejected" THEN [value |-> FALSE, exc |-> FALSE]
  ELSE [value |-> ResponseOk(outcome), exc |-> FALSE]

\* LEDStudioManager.loadStudioData: the studio's data, or null; an exception
\* of the probe is caught and gives null
loadStudioData(studioInfo, outcome) ==
  LET exists == checkFileExists(outcome)
  IN IF exists.exc THEN [data |-> << >>, exc |-> FALSE]
     ELSE IF exists.value THEN [data |-> <<studioInfo>>, exc |-> FALSE]
     ELSE [data |-> << >>, exc |-> FALSE]

\* loadAvailableStudios after `this.availableStudios = []`
NewDiscovery(probe) ==
  [probe |-> probe, pos |-> 1, availableStudios |-> << >>,
   isLoaded |-> FALSE, returned |-> FALSE, result |-> << >>]

\* One turn of the for loop: the probe of knownStudios[pos] has ended
ProbeEnded ==
  /\ ~discovery.returned
  /\ discovery.pos <= Len(knownStudios)
  /\ LET studio == knownStudios[discovery.pos]
         studioData == loadStudioData(studio, discovery.probe[studio])
     IN discovery' =
          IF studioData.exc
            THEN [discovery EXCEPT !.returned = TRUE, !.result = << >>]
            ELSE [discovery EXCEPT
                    !.availableStudios = @ \o studioData.data,
                    !.pos = @ + 1]
  /\ UNCHANGED <<imgWidth, imgHeight, crop, cinemaCamera, upload, texJob,
                 page, binding, appVars, studioVars, objectVars>>

\* The loop is over: isLoaded is set and the list returned
DiscoveryReturns ==
  /\ ~discovery.returned
  /\ discovery.pos > Len(knownStudios)
  /\ discovery' = [discovery EXCEPT !.isLoaded = TRUE, !.returned = TRUE,
                                    !.result = discovery.availableStudios]
  /\ UNCHANGED <<imgWidth, imgHeight, crop, cinemaCamera, upload, texJob,
                 page, binding, appVars, studioVars, objectVars>>

NextDiscovery ==
  \/ ProbeEnded
  \/ DiscoveryReturns

\* ================================================================ SpecBind
\* new LEDScreen(mesh, "M_WhiteScreen", app) on a studio mesh whose traversal
\* visits several materials.  A material is known by its place in traversal
\* order; its map and emissiveMap are its own.  Intensities are whole numbers,
\* Undefined for a material that has no emissiveIntensity property.
MaxMaterials == 3   \* materials the traversal of one studio mesh visits

FallbackIntensity == 1

ScreenMaterialName == "M_WhiteScreen"
MaterialNames == {ScreenMaterialName, "M_Floor"}
MaterialIntensities == {Undefined, 0, 2}
GlobalBrightnesses == {1, 3}

\* The material visited i-th, as the studio file gives it.
MaterialAt(i, name, intensity) ==
  [name |-> name, map |-> <<"map", i>>, emissiveMap |-> <<"emissiveMap", i>>,
   emissiveIntensity |-> intensity]

MaterialLists ==
  UNION {{[i \in 1..n |-> MaterialAt(i, names[i], ints[i])] :
            names \in [1..n -> MaterialNames],
            ints \in [1..n -> MaterialIntensities]} : n \in 1..MaxMaterials}

\* mat.emissiveIntensity || 1
OrFallback(i) == IF i = 0 \/ i = Undefined THEN FallbackIntensity ELSE i

\* The fields the LEDScreen constructor sets before findTargetMaterial;
\* material is the place of the bound material, 0 for null.
NewLEDScreen ==
  [material |-> 0, originalBaseColorTexture |-> NULL,
   originalEmissiveTexture |-> NULL,
   originalEmissiveIntensity |-> FallbackIntensity,
   currentTexture |-> NULL, brightness |-> FallbackIntensity]

\* The forEach body of LEDScreen.findTargetMaterial, for the material
\* visited i-th
bindMaterial(screen, mats, i) ==
  IF mats[i].name = ScreenMaterialName
    THEN [screen EXCEPT
            !.material = i,
            !.originalBaseColorTexture = mats[i].map,
            !.originalEmissiveTexture = mats[i].emissiveMap,
            !.originalEmissiveIntensity = OrFallback(mats[i].emissiveIntensity),
            !.brightness = OrFallback(mats[i].emissiveIntensity)]
    ELSE screen

\* LEDScreen.findTargetMaterial: mesh.traverse over the materials from the
\* i-th on
RECURSIVE findTargetMaterial_traverse(_, _, _)
findTargetMaterial_traverse(screen, mats, i) ==
  IF i > Len(mats) THEN screen
  ELSE findTargetMaterial_traverse(bindMaterial(screen, mats, i), mats, i + 1)

\* No LEDScreen constructed yet.  file: the materials as loaded; materials:
\* the materials as they are now.
NoBinding ==
  [file |-> << >>, materials |-> << >>, screen |-> NewLEDScreen,
   globalBrightness |-> FallbackIntensity, stage |-> "none"]

\* LEDScreen.applyGlobalState on the binding (no custom texture uploaded)
Bind_applyGlobalState(b) ==
  IF b.screen.material = 0 THEN b
  ELSE [b EXCEPT
          !.materials[b.screen.material].emissiveIntensity = b.globalBrightness,
          !.screen.brightness = b.globalBrightness]

\* LEDScreen.constructor
Bind_constructor(b) ==
  Bind_applyGlobalState(
    [b EXCEPT !.screen = findTargetMaterial_traverse(NewLEDScreen,
                                                     b.materials, 1),
              !.stage = "bound"])

\* LEDScreen.setBrightness on the binding
Bind_setBrightness(b, intensity) ==
  IF b.screen.material = 0 THEN b
  ELSE [b EXCEPT !.screen.brightness = intensity,
                 !.materials[b.screen.material].emissiveIntensity = intensity,
                 !.globalBrightness = intensity]

\* LEDScreen.resetToOriginal on the binding
Bind_resetToOriginal(b) ==
  IF b.screen.material = 0 THEN [b EXCEPT !.stage = "reset"]
  ELSE [b EXCEPT
          !.materials[b.screen.material].map =
              b.screen.originalBaseColorTexture,
          !.materials[b.screen.material].emissiveMap =
              b.screen.originalEmissiveTexture,
          !.materials[b.screen.material].emissiveIntensity =
              b.screen.originalEmissiveIntensity,
          !.screen.brightness = b.screen.originalEmissiveIntensity,
          !.screen.currentTexture = NULL,
          !.globalBrightness = b.screen.originalEmissiveIntensity,
          !.stage = "reset"]

\* The studio's mesh has loaded: the LEDScreen is constructed on it.
ScreenConstructed ==
  /\ binding.stage = "loaded"
  /\ binding' = Bind_constructor(binding)
  /\ UNCHANGED <<imgWidth, imgHeight, crop, cinemaCamera, upload, discovery,
                 texJob, page, appVars, studioVars, objectVars>>

\* #emissive-slider moved
BrightnessSet ==
  /\ binding.stage \in {"bound", "reset"}
  /\ \E intensity \in GlobalBrightnesses :
       binding' = [Bind_setBrightness(binding, intensity)
                     EXCEPT !.stage = "bound"]
  /\ UNCHANGED <<imgWidth, imgHeight, crop, cinemaCamera, upload, discovery,
                 texJob, page, appVars, studioVars, objectVars>>

\* #reset-texture pressed
ScreenReset ==
  /\ binding.stage = "bound"
  /\ binding' = Bind_resetToOriginal(binding)
  /\ UNCHANGED <<imgWidth, imgHeight, crop, cinemaCamera, upload, discovery,
                 texJob, page, appVars, studioVars, objectVars>>

NextBind ==
  \/ ScreenConstructed
  \/ BrightnessSet
  \/ ScreenReset

\* ========================================================= SpecPageScript
\* The page script of src/unnamed/part_000 (lines 1 to 1237): the editor
\* written as functions over the globals selectedModel, selectedCamera,
\* placedModels and cinemaCameras.  The variable `page` holds those globals.
MaxPlacedModels == 2    \* models placed in one run

ModelIds == {<<"model", n>> : n \in 1..MaxPlacedModels}

\* The globals as the script's top level leaves them.  unlit[m]: model m has
\* a mesh whose material has no emissive colour.  exc: an exception is
\* propagating out of the running handler.
NoPage ==
  [placedModels |-> << >>, unlit |-> [m \in ModelIds |-> FALSE],
   cinemaCameras |-> << >>, modelCounter |-> 0, cameraCounter |-> 1,
   selectedModel |-> NULL, selectedCamera |-> NULL,
   tcObject |-> NULL, tcVisible |-> FALSE, tcMode |-> "translate",
   helperVisible |-> [c \in CamIds |-> FALSE],
   meshVisible |-> [c \in CamIds |-> TRUE],
   isFullscreen |-> FALSE, overlays |-> 0,
   cameraPreviewRenderer |-> FALSE, viewportShown |-> FALSE, exc |-> FALSE]

\* The loop hiding every camera's helper and mesh, and the gizmo.
Proc_HideAll(p) ==
  [p EXCEPT !.helperVisible = [c \in CamIds |->
                                 IF c \in SeqToSet(p.cinemaCameras) THEN FALSE
                                 ELSE p.helperVisible[c]],
            !.meshVisible = [c \in CamIds |->
                               IF c \in SeqToSet(p.cinemaCameras) THEN FALSE
                               ELSE p.meshVisible[c]],
            !.tcVisible = FALSE]

\* deselectModel: the traverse throws at a mesh without an emissive colour,
\* before the gizmo is detached and selectedModel cleared.
deselectModel(p) ==
  IF p.selectedModel = NULL THEN p
  ELSE IF p.unlit[p.selectedModel] THEN [p EXCEPT !.exc = TRUE]
  ELSE [p EXCEPT !.tcObject = NULL, !.tcVisible = FALSE,
                 !.selectedModel = NULL]

\* deselectCinemaCamera
deselectCinemaCamera(p) ==
  IF p.selectedCamera = NULL THEN p
  ELSE [p EXCEPT !.helperVisible[p.selectedCamera] = FALSE,
                 !.tcObject = NULL, !.tcVisible = FALSE,
                 !.viewportShown = FALSE, !.selectedCamera = NULL]

\* selectModel
selectModel(p, model) ==
  IF p.selectedModel = model THEN p
  ELSE LET p1 == IF p.selectedModel # NULL THEN deselectModel(p) ELSE p
       IN IF p1.exc THEN p1
          ELSE [p1 EXCEPT !.selectedModel = model, !.tcObject = model,
                          !.tcVisible = TRUE, !.tcMode = "translate"]

\* renderCameraPreview of the page script; renders: the render call returns.
\* When it throws the flags stay as the hide loop left them.
Proc_renderCameraPreview(p, renders) ==
  IF p.selectedCamera = NULL \/ ~p.cameraPreviewRenderer THEN p
  ELSE IF renders THEN p
  ELSE [Proc_HideAll(p) EXCEPT !.exc = TRUE]

\* showCameraPreview of the page script
Proc_showCameraPreview(p, renders) ==
  IF p.selectedCamera = NULL THEN p
  ELSE Proc_renderCameraPreview([p EXCEPT !.viewportShown = TRUE,
                                          !.cameraPreviewRenderer = TRUE],
                                renders)

\* selectCinemaCamera
selectCinemaCamera(p, cameraData, renders) ==
  IF p.selectedCamera = cameraData THEN p
  ELSE LET p1 == IF p.selectedModel # NULL THEN deselectModel(p) ELSE p
           p2 == IF p1.exc \/ p1.selectedCamera = NULL THEN p1
                 ELSE deselectCinemaCamera(p1)
       IN IF p2.exc THEN p2
          ELSE Proc_showCameraPreview(
                 [p2 EXCEPT !.selectedCamera = cameraData,
                            !.helperVisible[cameraData] = TRUE,
                            !.tcObject = cameraData, !.tcVisible = TRUE,
                            !.tcMode = "translate"],
                 renders)

\* onMouseClick of the page script; target is what the first hit resolves
\* to: a camera whose mesh was hit, a placed model above the hit node, or
\* NULL for empty space.
Proc_onMouseClick(p, target, renders) ==
  IF target \in SeqToSet(p.cinemaCameras)
    THEN selectCinemaCamera(p, target, renders)
  ELSE IF target \in SeqToSet(p.placedModels)
    THEN selectModel(p, target)
  ELSE LET p1 == deselectModel(p)
       IN IF p1.exc THEN p1 ELSE deselectCinemaCamera(p1)

\* deleteSelectedModel
deleteSelectedModel(p) ==
  IF p.selectedModel = NULL THEN p
  ELSE [p EXCEPT !.placedModels = RemoveFrom(@, p.selectedModel),
                 !.tcObject = NULL, !.tcVisible = FALSE,
                 !.selectedModel = NULL]

\* deleteSelectedCamera
deleteSelectedCamera(p) ==
  IF p.selectedCamera = NULL THEN p
  ELSE [p EXCEPT !.cinemaCameras = RemoveFrom(@, p.selectedCamera),
                 !.viewportShown = FALSE,
                 !.tcObject = NULL, !.tcVisible = FALSE,
                 !.selectedCamera = NULL]

\* renderFullscreen of the page script: one run of the closure
Proc_renderFullscreen(p) ==
  IF p.isFullscreen /\ p.selectedCamera # NULL THEN Proc_HideAll(p) ELSE p

\* enterFullscreen of the page script, with the first run of its loop
Proc_enterFullscreen(p) ==
  IF p.selectedCamera = NULL THEN p
  ELSE Proc_renderFullscreen([p EXCEPT !.isFullscreen = TRUE,
                                       !.viewportShown = FALSE,
                                       !.overlays = @ + 1])

\* exitFullscreen of the page script
Proc_exitFullscreen(p) ==
  IF ~p.isFullscreen THEN p
  ELSE LET p1 == [p EXCEPT !.isFullscreen = FALSE,
                           !.overlays = IF @ > 0 THEN @ - 1 ELSE 0]
       IN IF p1.selectedCamera # NULL
            THEN [p1 EXCEPT !.viewportShown = TRUE,
                            !.helperVisible[p1.selectedCamera] = TRUE,
                            !.meshVisible[p1.selectedCamera] = TRUE,
                            !.tcVisible = TRUE]
            ELSE p1

\* captureCameraView: hide, render, restore; when the render or the encode
\* throws the flags stay hidden.
captureCameraView(p, renders) ==
  IF p.selectedCamera = NULL THEN p
  ELSE IF renders THEN p
  ELSE [Proc_HideAll(p) EXCEPT !.exc = TRUE]

ProcKeys == {"escape", "delete", "g", "r", "s", "x", "f", "c"}

\* The first switch of the keydown listener, run while a model is selected.
ModelKey(p, key) ==
  IF p.selectedModel = NULL THEN p
  ELSE IF key = "delete" THEN deleteSelectedModel(p)
  ELSE IF key = "g" THEN [p EXCEPT !.tcMode = "translate"]
  ELSE IF key = "r" THEN [p EXCEPT !.tcMode = "rotate"]
  ELSE IF key = "s" THEN [p EXCEPT !.tcMode = "scale"]
  ELSE IF key = "escape" THEN deselectModel(p)
  ELSE p

\* The second switch, run while a camera is selected.
CameraKey(p, key, renders) ==
  IF p.selectedCamera = NULL THEN p
  ELSE IF key = "delete" THEN deleteSelectedCamera(p)
  ELSE IF key = "g" THEN [p EXCEPT !.tcMode = "translate"]
  ELSE IF key = "r" THEN [p EXCEPT !.tcMode = "rotate"]
  ELSE IF key = "f" THEN Proc_enterFullscreen(p)
  ELSE IF key = "c" THEN captureCameraView(p, renders)
  ELSE IF key = "escape" THEN deselectCinemaCamera(p)
  ELSE p

\* The keydown listener of the page script
Proc_onKeyDown(p, key, renders) ==
  IF key = "escape" /\ p.isFullscreen THEN Proc_exitFullscreen(p)
  ELSE LET p1 == ModelKey(p, key)
       IN IF p1.exc THEN p1 ELSE CameraKey(p1, key, renders)

\* createCinemaCamera of the page script: the camera is tracked, nothing is
\* selected.
Proc_createCinemaCamera(p) ==
  LET cam == <<"cam", p.cameraCounter>>
  IN [p EXCEPT !.cinemaCameras = Append(@, cam),
               !.cameraCounter = @ + 1,
               !.helperVisible[cam] = FALSE,
               !.meshVisible[cam] = TRUE]

\* The loader's success callback of loadGltfFromBlob: the model is placed.
modelPlaced(p, unlit) ==
  LET m == <<"model", p.modelCounter + 1>>
  IN [p EXCEPT !.placedModels = Append(@, m), !.modelCounter = @ + 1,
               !.unlit[m] = unlit]

\* animate of the page script: the preview is rendered while a camera is
\* selected and the viewport is displayed.
Proc_animate(p, renders) ==
  IF p.selectedCamera # NULL /\ p.cameraPreviewRenderer /\ p.viewportShown
    THEN Proc_renderCameraPreview(p, renders)
    ELSE p

\* A handler's result becomes the page's state; an exception that leaves the
\* handler is reported and dropped by the event loop.
PageBecomes(p) ==
  /\ page' = [p EXCEPT !.exc = FALSE]
  /\ UNCHANGED <<imgWidth, imgHeight, crop, cinemaCamera, upload, discovery,
                 texJob, binding, appVars, studioVars, objectVars>>

\* A click on the canvas, which the fullscreen overlay covers.
PageMouseClick ==
  /\ page.overlays = 0
  /\ \E target \in SeqToSet(page.cinemaCameras)
                     \cup SeqToSet(page.placedModels) \cup {NULL},
        renders \in BOOLEAN :
       PageBecomes(Proc_onMouseClick(page, target, renders))

PageKeyDown ==
  \E key \in ProcKeys, renders \in BOOLEAN :
    /\ key = "f" => page.overlays < MaxOverlays
    /\ PageBecomes(Proc_onKeyDown(page, key, renders))

\* addCameraBtn
PageAddCamera ==
  /\ page.overlays = 0
  /\ page.cameraCounter <= MaxCams
  /\ PageBecomes(Proc_createCinemaCamera(page))

PageModelPlaced ==
  /\ page.modelCounter < MaxPlacedModels
  /\ \E unlit \in BOOLEAN : PageBecomes(modelPlaced(page, unlit))

\* fullscreenBtn, in the camera panel
PageClickFullscreen ==
  /\ page.selectedCamera # NULL
  /\ page.isFullscreen \/ page.overlays < MaxOverlays
  /\ PageBecomes(IF page.isFullscreen THEN Proc_exitFullscreen(page)
                 ELSE Proc_enterFullscreen(page))

\* One scheduled run of a renderFullscreen closure.
PageFullscreenFrame ==
  /\ page.overlays > 0
  /\ PageBecomes(Proc_renderFullscreen(page))

\* animate: one frame
PageAnimate ==
  /\ page.overlays <= MaxOverlays
  /\ \E renders \in BOOLEAN : PageBecomes(Proc_animate(page, renders))

NextPageScript ==
  \/ PageMouseClick
  \/ PageKeyDown
  \/ PageAddCamera
  \/ PageModelPlaced
  \/ PageClickFullscreen
  \/ PageFullscreenFrame
  \/ PageAnimate

\* ================================================================ SpecCrop
\* LEDScreen.cropImageTo10x3 on one image.  The code computes in doubles; the
\* model computes the same quotients exactly, every length held as a whole
\* number of 1/Scale pixels.
MaxSide == 12       \* small image sides, in pixels

LargeSides == {1080, 3600, 3601, 12000, 12001}
Sides == (1..MaxSide) \cup LargeSides

AspectNum == 10
AspectDen == 3
MaxOutputWidth == 3600
Scale == 60

NoCrop == [sourceX |-> 0, sourceY |-> 0, sourceWidth |-> 0, sourceHeight |-> 0,
           outputWidth |-> 0, outputHeight |-> 0,
           canvasWidth |-> 0, canvasHeight |-> 0, done |-> FALSE]

Min(a, b) == IF a <= b THEN a ELSE b

\* canvas.width = x: the double is converted to an unsigned long, dropping
\* the fraction.
ToUnsignedLong(scaled) == scaled \div Scale

\* The img.onload callback of LEDScreen.cropImageTo10x3
cropImageTo10x3(width, height) ==
  LET wider == width * AspectDen > height * AspectNum
      sourceWidth == IF wider THEN (height * Scale * AspectNum) \div AspectDen
                     ELSE width * Scale
      sourceX == IF wider THEN (width * Scale - sourceWidth) \div 2 ELSE 0
      sourceHeight == IF wider THEN height * Scale
                      ELSE (width * Scale * AspectDen) \div AspectNum
      sourceY == IF wider THEN 0 ELSE (height * Scale - sourceHeight) \div 2
      outputWidth == Min(MaxOutputWidth * Scale, sourceWidth)
      outputHeight == (outputWidth * AspectDen) \div AspectNum
  IN [sourceX |-> sourceX, sourceY |-> sourceY,
      sourceWidth |-> sourceWidth, sourceHeight |-> sourceHeight,
      outputWidth |-> outputWidth, outputHeight |-> outputHeight,
      canvasWidth |-> ToUnsignedLong(outputWidth),
      canvasHeight |-> ToUnsignedLong(outputHeight), done |-> TRUE]

\* texJob when setCustomTexture has not been called
NoTexJob == [decodes |-> TRUE, stage |-> "none", signalled |-> FALSE,
             crashed |-> FALSE]

PureAtRest ==
  /\ imgWidth = 1
  /\ imgHeight = 1
  /\ crop = NoCrop
  /\ cinemaCamera = NewCinemaCamera
  /\ upload = NoUpload
  /\ binding = NoBinding
  /\ page = NoPage
  /\ texJob = NoTexJob
  /\ discovery = NewDiscovery([s \in KnownNames |-> "200"])

\* The image has loaded: the crop is computed and drawn.
ImageLoaded ==
  /\ ~crop.done
  /\ crop' = cropImageTo10x3(imgWidth, imgHeight)
  /\ UNCHANGED <<imgWidth, imgHeight, cinemaCamera, upload, discovery,
                 texJob, page, binding, appVars, studioVars, objectVars>>

NextCrop == ImageLoaded

\* ============================================================= SpecTexture
\* One LEDScreen.setCustomTexture(file, callback) on a screen with a
\* material: the file is read as a data URL, decoded by an Image, cropped,
\* and the crop is loaded as a texture.  decodes: whether the file's bytes
\* are an image the browser can decode.
\* stage: "none" no call; "reading" FileReader.readAsDataURL under way;
\* "decoding" img.src assigned; "loadingTexture" TextureLoader.load under way;
\* "applied" the texture is on the material and the caller's callback ran;
\* "decodeFailed", "textureFailed" the Image's error event was dispatched.
\* (NoTexJob, the record before any call, is defined with PureAtRest.)
\* reader.onload of cropImageTo10x3: img.src = e.target.result
FileRead ==
  /\ texJob.stage = "reading"
  /\ texJob' = [texJob EXCEPT !.stage = "decoding"]
  /\ UNCHANGED <<imgWidth, imgHeight, crop, cinemaCamera, upload, discovery,
                 page, binding, appVars, studioVars, objectVars>>

\* img.onload of cropImageTo10x3: the crop is drawn and handed, as a data
\* URL, to the callback, which starts textureLoader.load
ImageDecoded ==
  /\ texJob.stage = "decoding"
  /\ texJob.decodes
  /\ crop' = cropImageTo10x3(imgWidth, imgHeight)
  /\ texJob' = [texJob EXCEPT !.stage = "loadingTexture"]
  /\ UNCHANGED <<imgWidth, imgHeight, cinemaCamera, upload, discovery, page,
                 binding, appVars, studioVars, objectVars>>

\* The Image cannot decode the data: its error event is dispatched.
\* cropImageTo10x3 assigns no img.onerror, so no code runs.
ImageDecodeFailed ==
  /\ texJob.stage = "decoding"
  /\ ~texJob.decodes
  /\ texJob' = [texJob EXCEPT !.stage = "decodeFailed"]
  /\ UNCHANGED <<imgWidth, imgHeight, crop, cinemaCamera, upload, discovery,
                 page, binding, appVars, studioVars, objectVars>>

\* canvas.toDataURL of a canvas with a zero side is "data:,", which is no
\* image.
DataUrlIsImage(c) == c.canvasWidth > 0 /\ c.canvasHeight > 0

\* The onLoad callback of textureLoader.load in setCustomTexture: the
\* texture is applied and `if (callback) callback()` runs
TextureApplied ==
  /\ texJob.stage = "loadingTexture"
  /\ DataUrlIsImage(crop)
  /\ texJob' = [texJob EXCEPT !.stage = "applied", !.signalled = TRUE]
  /\ UNCHANGED <<imgWidth, imgHeight, crop, cinemaCamera, upload, discovery,
                 page, binding, appVars, studioVars, objectVars>>

\* The data URL is no image: textureLoader.load was given no onError, so no
\* code of the caller runs.
TextureLoadFailed ==
  /\ texJob.stage = "loadingTexture"
  /\ ~DataUrlIsImage(crop)
  /\ texJob' = [texJob EXCEPT !.stage = "textureFailed"]
  /\ UNCHANGED <<imgWidth, imgHeight, crop, cinemaCamera, upload, discovery,
                 page, binding, appVars, studioVars, objectVars>>

NextTexture ==
  \/ FileRead
  \/ ImageDecoded
  \/ ImageDecodeFailed
  \/ TextureApplied
  \/ TextureLoadFailed

\* ============================================================== SpecStudio
\* LEDStudioManager.switchStudio, LEDStageApp.initializeStudioManager and
\* onStudioChange, and the LEDScreen of the current studio.  The model starts
\* when discovery has found both known studios and the default studio's load
\* has been started; the loading screen covers the controls until that load
\* has ended.
MaxSwitches == 3    \* switchStudio calls in one run, the default load included
MaxTexLoads == 1    \* setCustomTexture calls in one run

StudioNames == {"MADRID_15X5", "BARCELONA"}
DefaultStudio == "MADRID_15X5"

SliderValues == {0, 3}          \* values the brightness slider is moved to
NativeIntensities == {0, 2}     \* emissiveIntensity a studio file may carry
InitialGlobalBrightness == 1

MeshIds == {<<"mesh", n>> : n \in 1..MaxSwitches}

\* What a studio's glTF holds: whether a material is named M_WhiteScreen, and
\* that material's emissiveIntensity.
StudioFiles ==
  {[hasScreen |-> TRUE, emissiveIntensity |-> i] : i \in NativeIntensities}
    \cup {[hasScreen |-> FALSE, emissiveIntensity |-> 0]}

NativeMap(m) == <<"native", m[2]>>
NativeEmissiveMap(m) == <<"nativeEmissive", m[2]>>
CustomTexture(n) == <<"custom", n>>

NoMaterial == [present |-> FALSE, map |-> NULL, emissiveMap |-> NULL,
               emissiveIntensity |-> 0]

NoScreen == [exists |-> FALSE, material |-> FALSE,
             originalBaseColorTexture |-> NULL,
             originalEmissiveTexture |-> NULL,
             originalEmissiveIntensity |-> FallbackIntensity,
             currentTexture |-> NULL, brightness |-> FallbackIntensity]

NoBind == [map |-> NULL, emissiveMap |-> NULL, emissiveIntensity |-> 0]

\* lastSet when no brightness has been set since the screen was bound
NotSet == 0 - 1

\* sdone when no handler has just ended.  clean: no user event fell between
\* the start and the end of the switch; overlapped: another switch was in
\* flight at some time during it; peerFailed: one of those failed;
\* preTexture, preBrightness: the custom texture applied last and the
\* brightness set last before the handler's final step (for a reset: the
\* screen's currentTexture and its material's emissiveIntensity); late: the
\* LEDScreen a texture load was started on is no longer app.ledScreen; wrote:
\* the completion changed a global custom texture field or the map or
\* emissiveMap of some material; preEnv: the environment meshes in the scene
\* when the switch was called.
NoDone == [kind |-> "none", result |-> FALSE, mesh |-> NULL,
           clean |-> FALSE, overlapped |-> FALSE, peerFailed |-> FALSE,
           preTexture |-> NULL, preBrightness |-> NotSet, late |-> FALSE,
           wrote |-> FALSE, preEnv |-> {}]

CurS ==
  [studioFile |-> studioFile, sceneEnv |-> sceneEnv,
   currentStudioMesh |-> currentStudioMesh, currentStudio |-> currentStudio,
   disposals |-> disposals, disposedTextures |-> disposedTextures,
   meshCounter |-> meshCounter,
   meshStudio |-> meshStudio, material |-> material, screens |-> screens,
   ledScreen |-> ledScreen, globalCustomTexture |-> globalCustomTexture,
   globalCustomEmissiveTexture |-> globalCustomEmissiveTexture,
   globalBrightness |-> globalBrightness, switches |-> switches,
   switchCounter |-> switchCounter, texLoads |-> texLoads,
   texCounter |-> texCounter, exc |-> FALSE]

ApplyS(r) ==
  /\ studioFile' = r.studioFile
  /\ sceneEnv' = r.sceneEnv
  /\ currentStudioMesh' = r.currentStudioMesh
  /\ currentStudio' = r.currentStudio
  /\ disposals' = r.disposals
  /\ disposedTextures' = r.disposedTextures
  /\ meshCounter' = r.meshCounter
  /\ meshStudio' = r.meshStudio
  /\ material' = r.material
  /\ screens' = r.screens
  /\ ledScreen' = r.ledScreen
  /\ globalCustomTexture' = r.globalCustomTexture
  /\ globalCustomEmissiveTexture' = r.globalCustomEmissiveTexture
  /\ globalBrightness' = r.globalBrightness
  /\ switches' = r.switches
  /\ switchCounter' = r.switchCounter
  /\ texLoads' = r.texLoads
  /\ texCounter' = r.texCounter
  /\ UNCHANGED <<appVars, objectVars, pureVars>>

\* ------------------------------------------------------------- LEDScreen
\* LEDScreen.findTargetMaterial: the fields of a new LEDScreen on mesh m
findTargetMaterial(t, m) ==
  IF t.material[m].present
    THEN [exists |-> TRUE, material |-> TRUE,
          originalBaseColorTexture |-> t.material[m].map,
          originalEmissiveTexture |-> t.material[m].emissiveMap,
          originalEmissiveIntensity |-> OrFallback(t.material[m].emissiveIntensity),
          currentTexture |-> NULL,
          brightness |-> OrFallback(t.material[m].emissiveIntensity)]
    ELSE [NoScreen EXCEPT !.exists = TRUE]

\* LEDScreen.applyGlobalState
applyGlobalState(t, m) ==
  IF ~t.screens[m].material THEN t
  ELSE LET t1 == [t EXCEPT !.material[m].emissiveIntensity = t.globalBrightness,
                           !.screens[m].brightness = t.globalBrightness]
       IN IF t1.globalCustomTexture # NULL
            THEN [t1 EXCEPT !.material[m].map = t1.globalCustomTexture,
                            !.material[m].emissiveMap = t1.globalCustomEmissiveTexture,
                            !.screens[m].currentTexture = t1.globalCustomTexture]
            ELSE t1

\* LEDScreen.constructor
LEDScreen_new(t, m) ==
  applyGlobalState([t EXCEPT !.screens[m] = findTargetMaterial(t, m)], m)

\* LEDScreen.setBrightness without the update of the global brightness.
setBrightness_LocalOnly(t, m, intensity) ==
  IF ~t.screens[m].material THEN t
  ELSE [t EXCEPT !.screens[m].brightness = intensity,
                 !.material[m].emissiveIntensity = intensity]

\* LEDScreen.setBrightness writing the global brightness before its test of
\* the material.
setBrightness_GlobalFirst(t, m, intensity) ==
  IF ~t.screens[m].material THEN [t EXCEPT !.globalBrightness = intensity]
  ELSE [t EXCEPT !.screens[m].brightness = intensity,
                 !.material[m].emissiveIntensity = intensity,
                 !.globalBrightness = intensity]

\* LEDScreen.setBrightness
setBrightness(t, m, intensity) ==
  IF ~t.screens[m].material THEN t
  ELSE [t EXCEPT !.screens[m].brightness = intensity,
                 !.material[m].emissiveIntensity = intensity,
                 !.globalBrightness = intensity]

\* LEDScreen.resetToOriginal leaving the emissive map as it is.
resetToOriginal_KeepEmissiveMap(t, m) ==
  IF ~t.screens[m].material THEN t
  ELSE [t EXCEPT
          !.material[m].map = t.screens[m].originalBaseColorTexture,
          !.material[m].emissiveIntensity = t.screens[m].originalEmissiveIntensity,
          !.screens[m].brightness = t.screens[m].originalEmissiveIntensity,
          !.screens[m].currentTexture = NULL,
          !.globalCustomTexture = NULL,
          !.globalCustomEmissiveTexture = NULL,
          !.globalBrightness = t.screens[m].originalEmissiveIntensity]

\* LEDScreen.resetToOriginal
resetToOriginal(t, m) ==
  IF ~t.screens[m].material THEN t
  ELSE [t EXCEPT
          !.material[m].map = t.screens[m].originalBaseColorTexture,
          !.material[m].emissiveMap = t.screens[m].originalEmissiveTexture,
          !.material[m].emissiveIntensity = t.screens[m].originalEmissiveIntensity,
          !.screens[m].brightness = t.screens[m].originalEmissiveIntensity,
          !.screens[m].currentTexture = NULL,
          !.globalCustomTexture = NULL,
          !.globalCustomEmissiveTexture = NULL,
          !.globalBrightness = t.screens[m].originalEmissiveIntensity]

\* LEDScreen.setCustomTexture, up to the start of the crop and load
setCustomTexture(t, m) ==
  IF ~t.screens[m].material THEN t
  ELSE [t EXCEPT !.texCounter = @ + 1,
                 !.texLoads = @ \cup {[screen |-> m, n |-> t.texCounter + 1]}]

\* The TextureLoader callback inside LEDScreen.setCustomTexture; `this` is the
\* LEDScreen the call was made on.
textureLoaded(t, ld) ==
  LET texture == CustomTexture(ld.n)
      this == ld.screen
  IN [t EXCEPT !.material[this].map = texture,
               !.material[this].emissiveMap = texture,
               !.screens[this].currentTexture = texture,
               !.globalCustomTexture = texture,
               !.globalCustomEmissiveTexture = texture,
               !.texLoads = @ \ {ld}]

\* ------------------------------------------------------ LEDStudioManager
\* LEDStudioManager.disposeStudioMesh
\* The maps of the materials of mesh m that are not named M_WhiteScreen.
EnvironmentTextures(m) == {<<"envMap", m[2]>>}

Textures(S) == S \ {NULL}

\* LEDStudioManager.disposeStudioMesh disposing the maps of every material.
disposeStudioMesh_ScreenToo(t, m) ==
  [t EXCEPT !.disposals[m] = @ + 1,
            !.disposedTextures =
               @ \cup EnvironmentTextures(m)
                 \cup Textures({t.material[m].map, t.material[m].emissiveMap})]

\* LEDStudioManager.disposeStudioMesh: geometry and materials are disposed,
\* and the maps of every material but the one named M_WhiteScreen
disposeStudioMesh(t, m) ==
  [t EXCEPT !.disposals[m] = @ + 1,
            !.disposedTextures = @ \cup EnvironmentTextures(m)]

\* LEDStudioManager.switchStudio, up to the await of loadStudioMesh
\* (preserveScreenState = false at both call sites)
switchStudio_begin(t) ==
  IF t.currentStudioMesh # NULL
    THEN disposeStudioMesh([t EXCEPT !.sceneEnv = @ \ {t.currentStudioMesh}],
                           t.currentStudioMesh)
    ELSE t

\* The mesh GLTFLoader hands to loadStudioMesh's resolve.
LoadedMaterial(t, studio, m) ==
  IF t.studioFile[studio].hasScreen
    THEN [present |-> TRUE, map |-> NativeMap(m),
          emissiveMap |-> NativeEmissiveMap(m),
          emissiveIntensity |-> t.studioFile[studio].emissiveIntensity]
    ELSE NoMaterial

\* LEDStudioManager.switchStudio after a successful load
switchStudio_loaded(t, studio) ==
  LET newStudioMesh == <<"mesh", t.meshCounter + 1>>
  IN [t EXCEPT !.meshCounter = @ + 1,
               !.meshStudio[newStudioMesh] = studio,
               !.material[newStudioMesh] = LoadedMaterial(t, studio, newStudioMesh),
               !.sceneEnv = @ \cup {newStudioMesh},
               !.currentStudioMesh = newStudioMesh,
               !.currentStudio = studio]

\* LEDStageApp.initializeStudioManager after switchStudio has succeeded
initializeStudioManager_loaded(t, studio) ==
  LET t1 == switchStudio_loaded(t, studio)
      m == t1.currentStudioMesh
      t2 == [LEDScreen_new(t1, m) EXCEPT !.ledScreen = m]
  IN [t2 EXCEPT !.globalBrightness = t2.screens[m].originalEmissiveIntensity]

\* LEDStageApp.onStudioChange after switchStudio has succeeded.  Writing
\* this.ledScreen.material.map on a screen that found no material throws; the
\* handler's catch ends it there.
onStudioChange_loaded(t, studio, currentBrightness, hasCustomTexture) ==
  LET t1 == switchStudio_loaded(t, studio)
      m == t1.currentStudioMesh
      t2 == [LEDScreen_new(t1, m) EXCEPT !.ledScreen = m]
  IN IF hasCustomTexture /\ t2.globalCustomTexture # NULL
       THEN IF ~t2.screens[m].material
              THEN [t2 EXCEPT !.exc = TRUE]
              ELSE setBrightness(
                     [t2 EXCEPT !.material[m].map = t2.globalCustomTexture,
                                !.material[m].emissiveMap = t2.globalCustomEmissiveTexture,
                                !.screens[m].currentTexture = t2.globalCustomTexture],
                     m, currentBrightness)
       ELSE setBrightness(t2, m, currentBrightness)

\* ------------------------------------------------------------- actions
InitStudioVars(files, pending) ==
  /\ studioFile = files
  /\ sceneEnv = {}
  /\ currentStudioMesh = NULL
  /\ currentStudio = "none"
  /\ disposals = [m \in MeshIds |-> 0]
  /\ disposedTextures = {}
  /\ meshCounter = 0
  /\ meshStudio = [m \in MeshIds |-> "none"]
  /\ material = [m \in MeshIds |-> NoMaterial]
  /\ screens = [m \in MeshIds |-> NoScreen]
  /\ ledScreen = NULL
  /\ globalCustomTexture = NULL
  /\ globalCustomEmissiveTexture = NULL
  /\ globalBrightness = InitialGlobalBrightness
  /\ switches = pending
  /\ switchCounter = Cardinality(pending)
  /\ texLoads = {}
  /\ texCounter = 0
  /\ sdone = NoDone
  /\ bindTime = [m \in MeshIds |-> NoBind]
  /\ lastApplied = NULL
  /\ lastSet = NotSet

\* A switchStudio call awaiting its load, with the locals of its caller.
NewSwitch(id, kind, studio, brightness, custom, overlap, env) ==
  [id |-> id, kind |-> kind, studio |-> studio,
   currentBrightness |-> brightness, hasCustomTexture |-> custom,
   clean |-> TRUE, overlapped |-> overlap, peerFailed |-> FALSE,
   preEnv |-> env]

InitLoading == \E sw \in switches : sw.kind = "init"

Disturbed(S) == {[sw EXCEPT !.clean = FALSE] : sw \in S}

Handlers == sdone.kind = "none"

\* #studio-dropdown change: onStudioChange up to the await
StudioChange ==
  /\ Handlers /\ ~InitLoading
  /\ switchCounter < MaxSwitches
  /\ \E studioName \in StudioNames :
       LET t == switchStudio_begin(CurS)
           mine == NewSwitch(switchCounter + 1, "change", studioName,
                             globalBrightness, globalCustomTexture # NULL,
                             switches # {}, sceneEnv)
       IN ApplyS([t EXCEPT
                    !.switchCounter = @ + 1,
                    !.switches = {[sw EXCEPT !.clean = FALSE, !.overlapped = TRUE]
                                    : sw \in switches} \cup {mine}])
  /\ UNCHANGED <<sdone, bindTime, lastApplied, lastSet>>

SwitchDone(sw, kind, mesh) ==
  [NoDone EXCEPT !.kind = kind, !.result = (kind = "switchOk"),
                 !.mesh = mesh,
                 !.clean = sw.clean, !.overlapped = sw.overlapped,
                 !.peerFailed = sw.peerFailed,
                 !.preTexture = lastApplied,
                 !.preBrightness = lastSet,
                 !.preEnv = sw.preEnv]

\* The environment load of one pending switch succeeds: the rest of
\* switchStudio and of its caller run.
SwitchLoaded ==
  /\ Handlers
  /\ \E sw \in switches :
       LET t0 == [CurS EXCEPT !.switches = @ \ {sw}]
           t == IF sw.kind = "init"
                  THEN initializeStudioManager_loaded(t0, sw.studio)
                  ELSE onStudioChange_loaded(t0, sw.studio, sw.currentBrightness,
                                             sw.hasCustomTexture)
           m == t.currentStudioMesh
           found == findTargetMaterial(switchStudio_loaded(t0, sw.studio), m)
       IN /\ ApplyS(t)
          /\ sdone' = SwitchDone(sw, "switchOk", m)
          /\ bindTime' = [bindTime EXCEPT ![m] =
               [map |-> found.originalBaseColorTexture,
                emissiveMap |-> found.originalEmissiveTexture,
                emissiveIntensity |-> found.originalEmissiveIntensity]]
          /\ lastSet' = IF sw.kind = "init" THEN NotSet
                         ELSE IF t.screens[m].material /\ ~t.exc
                                THEN sw.currentBrightness
                                ELSE lastSet
  /\ UNCHANGED lastApplied

\* The environment load of one pending switch fails: loadStudioMesh rejects,
\* switchStudio's catch returns false, the caller logs.
SwitchFailed ==
  /\ Handlers
  /\ \E sw \in switches :
       /\ ApplyS([CurS EXCEPT !.switches =
                    {[o EXCEPT !.peerFailed = TRUE] : o \in switches \ {sw}}])
       /\ sdone' = SwitchDone(sw, "switchFail", NULL)
  /\ UNCHANGED <<bindTime, lastApplied, lastSet>>

\* #emissive-slider input
MoveSlider ==
  /\ Handlers /\ ~InitLoading
  /\ ledScreen # NULL
  /\ \E intensity \in SliderValues :
       /\ ApplyS([setBrightness(CurS, ledScreen, intensity)
                    EXCEPT !.switches = Disturbed(@)])
       /\ lastSet' = IF screens[ledScreen].material THEN intensity ELSE lastSet
  /\ UNCHANGED <<sdone, bindTime, lastApplied>>

\* #reset-button click
ClickReset ==
  /\ Handlers /\ ~InitLoading
  /\ ledScreen # NULL
  /\ ApplyS([resetToOriginal(CurS, ledScreen) EXCEPT !.switches = Disturbed(@)])
  /\ sdone' = [NoDone EXCEPT !.kind = "reset",
                             !.result = screens[ledScreen].material,
                             !.mesh = ledScreen,
                             !.preTexture = screens[ledScreen].currentTexture,
                             !.preBrightness = material[ledScreen].emissiveIntensity]
  /\ lastSet' = IF screens[ledScreen].material THEN NotSet ELSE lastSet
  /\ lastApplied' = IF screens[ledScreen].material THEN NULL ELSE lastApplied
  /\ UNCHANGED bindTime

\* #file-input change: setCustomTexture starts the crop and the load
UploadTexture ==
  /\ Handlers /\ ~InitLoading
  /\ ledScreen # NULL
  /\ texCounter < MaxTexLoads
  /\ ApplyS([setCustomTexture(CurS, ledScreen) EXCEPT !.switches = Disturbed(@)])
  /\ UNCHANGED <<sdone, bindTime, lastApplied, lastSet>>

\* Whether a step from t to u changed a global custom texture field or the
\* map or emissiveMap of some material.
Wrote(t, u) ==
  \/ u.globalCustomTexture # t.globalCustomTexture
  \/ u.globalCustomEmissiveTexture # t.globalCustomEmissiveTexture
  \/ \E m \in MeshIds : \/ u.material[m].map # t.material[m].map
                        \/ u.material[m].emissiveMap # t.material[m].emissiveMap

\* The crop and the texture load of one pending setCustomTexture complete.
TextureLoaded ==
  /\ Handlers
  /\ \E ld \in texLoads :
       /\ ApplyS(textureLoaded(CurS, ld))
       /\ sdone' = [NoDone EXCEPT !.kind = "texDone",
                                  !.mesh = ld.screen,
                                  !.late = (ld.screen # ledScreen),
                                  !.wrote = Wrote(CurS, textureLoaded(CurS, ld))]
       /\ lastApplied' = CustomTexture(ld.n)
  /\ UNCHANGED <<bindTime, lastSet>>

\* The handler is over.
StudioReturn ==
  /\ sdone.kind # "none"
  /\ sdone' = NoDone
  /\ UNCHANGED <<appVars, objectVars, pureVars, studioFile, sceneEnv, currentStudioMesh,
                 currentStudio, disposals, disposedTextures, meshCounter,
                 meshStudio, material,
                 screens, ledScreen, globalCustomTexture,
                 globalCustomEmissiveTexture, globalBrightness, switches,
                 switchCounter, texLoads, texCounter, bindTime, lastApplied,
                 lastSet>>

NextStudio ==
  \/ StudioChange
  \/ SwitchLoaded
  \/ SwitchFailed
  \/ MoveSlider
  \/ ClickReset
  \/ UploadTexture
  \/ TextureLoaded
  \/ StudioReturn

\* The default studio's load is pending; each studio's file is one of the
\* files a studio can hold.
InitStudio ==
  /\ InitApp
  /\ InitObjectVars(<<Group>>)
  /\ PureAtRest
  /\ \E files \in [StudioNames -> StudioFiles] :
       InitStudioVars(files,
                      {NewSwitch(1, "init", DefaultStudio, InitialGlobalBrightness,
                                 FALSE, FALSE, {})})

SpecStudio == InitStudio /\ [][NextStudio]_vars

\* ------------------------------------------------------------------- Spec
\* The selection model runs with the studio at rest.
StudioAtRest ==
  InitStudioVars([n \in StudioNames |-> [hasScreen |-> FALSE,
                                         emissiveIntensity |-> 0]], {})

Init ==
  /\ InitApp
  /\ StudioAtRest
  /\ InitObjectVars(<<Group>>)
  /\ PureAtRest

Spec == Init /\ [][Next]_vars

\* The class-based page of part_000 starts as main_oop.js does.
SpecClassVariant == Init /\ [][NextClassVariant]_vars

\* ------------------------------------------------------------ SpecObject
\* A model as GLTFLoader hands it over, wrapped by new SceneObject(mesh).
InitObject ==
  /\ InitApp
  /\ StudioAtRest
  /\ PureAtRest
  /\ \E model \in Models : InitObjectVars(model)

SpecObject == InitObject /\ [][NextObject]_vars

\* -------------------------------------------------------------- SpecCrop
\* An image of any of the sides has been chosen and is loading.
InitCrop ==
  /\ InitApp
  /\ StudioAtRest
  /\ InitObjectVars(<<Group>>)
  /\ imgWidth \in Sides
  /\ imgHeight \in Sides
  /\ crop = NoCrop
  /\ cinemaCamera = NewCinemaCamera
  /\ upload = NoUpload
  /\ binding = NoBinding
  /\ page = NoPage
  /\ texJob = NoTexJob
  /\ discovery = NewDiscovery([s \in KnownNames |-> "200"])

SpecCrop == InitCrop /\ [][NextCrop]_vars

\* ------------------------------------------------------------ SpecUpload
SpecUpload == Init /\ [][NextUpload]_vars

\* --------------------------------------------------------- SpecDiscovery
\* initializeStudioManager has called loadAvailableStudios; each probe will
\* end in one of the outcomes.
InitDiscovery ==
  /\ InitApp
  /\ StudioAtRest
  /\ InitObjectVars(<<Group>>)
  /\ imgWidth = 1
  /\ imgHeight = 1
  /\ crop = NoCrop
  /\ cinemaCamera = NewCinemaCamera
  /\ upload = NoUpload
  /\ binding = NoBinding
  /\ page = NoPage
  /\ texJob = NoTexJob
  /\ \E probe \in [KnownNames -> ProbeOutcomes] :
       discovery = NewDiscovery(probe)

SpecDiscovery == InitDiscovery /\ [][NextDiscovery]_vars

\* ----------------------------------------------------------- SpecTexture
\* #file-input change on a screen with a material: setCustomTexture has
\* started reading a file that decodes or does not.
InitTexture ==
  /\ InitApp
  /\ StudioAtRest
  /\ InitObjectVars(<<Group>>)
  /\ imgWidth \in Sides
  /\ imgHeight \in Sides
  /\ crop = NoCrop
  /\ cinemaCamera = NewCinemaCamera
  /\ upload = NoUpload
  /\ binding = NoBinding
  /\ page = NoPage
  /\ discovery = NewDiscovery([s \in KnownNames |-> "200"])
  /\ \E decodes \in BOOLEAN :
       texJob = [NoTexJob EXCEPT !.decodes = decodes, !.stage = "reading"]

\* Every event of the browser that is due is delivered.
SpecTexture == InitTexture /\ [][NextTexture]_vars /\ WF_vars(NextTexture)

\* ---------------------------------------------------------- SpecPageScript
\* The page script has run to its end: nothing placed, nothing selected.
InitPageScript ==
  /\ InitApp
  /\ StudioAtRest
  /\ InitObjectVars(<<Group>>)
  /\ PureAtRest

SpecPageScript == InitPageScript /\ [][NextPageScript]_vars

\* -------------------------------------------------------------- SpecBind
\* A studio mesh with any materials has loaded; the slider stands anywhere.
InitBind ==
  /\ InitApp
  /\ StudioAtRest
  /\ InitObjectVars(<<Group>>)
  /\ imgWidth = 1
  /\ imgHeight = 1
  /\ crop = NoCrop
  /\ cinemaCamera = NewCinemaCamera
  /\ upload = NoUpload
  /\ page = NoPage
  /\ texJob = NoTexJob
  /\ discovery = NewDiscovery([s \in KnownNames |-> "200"])
  /\ \E mats \in MaterialLists, g \in GlobalBrightnesses :
       binding = [NoBinding EXCEPT !.file = mats, !.materials = mats,
                                   !.globalBrightness = g,
                                   !.stage = "loaded"]

SpecBind == InitBind /\ [][NextBind]_vars

\* ------------------------------------------------------------ SpecCamera
SpecCamera == Init /\ [][NextCamera]_vars

\* ============================================================== properties
\* C1: at most one tracked entity (placed model or cinema camera) has
\* isSelected = TRUE, in every reachable state.
C1_AtMostOneSelected ==
  Cardinality({e \in Tracked : isSelected[e]}) <= 1

\* A selection exists among at least two tracked entities after another
\* selected entity has been deleted.
C1_Witness ==
  /\ selectedObject # NULL
  /\ isSelected[selectedObject]
  /\ Cardinality(Tracked) >= 2
  /\ \E e \in EntityIds \ Tracked : isSelected[e]

VisualsAsBeforeCall ==
  /\ \A c \in SeqToSet(cinemaCameras) :
       helperVisible[c] = preHelper[c] /\ meshVisible[c] = preMesh[c]
  /\ tcVisible = preTc

\* C2: when the render succeeds, capture() and renderCameraPreview() return
\* with every tracked camera's helper and proxy-mesh visibility and the
\* gizmo's visibility equal to their values when the call began.
C2_VisualsRestoredAfterRender ==
  (pc = "after" /\ ~threw) => VisualsAsBeforeCall

\* A capture has returned with two cameras tracked, the flags before the call
\* being mixed: a visible helper, an invisible proxy mesh, a visible gizmo.
C2_Witness ==
  /\ pc = "after" /\ ~threw /\ op = "capture"
  /\ Len(cinemaCameras) >= 2
  /\ \E c \in SeqToSet(cinemaCameras) : preHelper[c]
  /\ \E c \in SeqToSet(cinemaCameras) : ~preMesh[c]
  /\ preTc

\* C3: when the render or encode step throws, the flags are still restored
\* to their values when the call began.
C3_VisualsRestoredAfterFailure ==
  (pc = "after" /\ threw) => VisualsAsBeforeCall

\* C4: pinnedCamera is null or a camera still in cinemaCameras.
C4_PinNeverDangles ==
  pinnedCamera = NULL \/ pinnedCamera \in SeqToSet(cinemaCameras)

\* The pinned camera has just been deleted.
C4_Witness ==
  /\ last = "deletedPinned"
  /\ pinnedCamera = NULL
  /\ \E c \in CamIds \ SeqToSet(cinemaCameras) : isSelected[c]

\* C5: when onStudioChange completes successfully with no user event during
\* the load and the new studio has the screen material, the new material's
\* emissiveIntensity is the brightness b last set by setBrightness and its
\* map and emissiveMap are both the custom texture t applied last.
C5_SwitchPreservesScreenState ==
  (/\ sdone.kind = "switchOk"
   /\ sdone.clean /\ ~sdone.overlapped
   /\ sdone.preTexture # NULL /\ sdone.preBrightness # NotSet
   /\ screens[sdone.mesh].material)
  => /\ material[sdone.mesh].emissiveIntensity = sdone.preBrightness
     /\ material[sdone.mesh].map = sdone.preTexture
     /\ material[sdone.mesh].emissiveMap = sdone.preTexture

\* A clean switch to the other studio has bound a screen after a custom
\* texture was applied and the slider was moved to a value no file carries.
C5_Witness ==
  /\ sdone.kind = "switchOk"
  /\ sdone.clean /\ ~sdone.overlapped
  /\ sdone.preTexture = CustomTexture(1)
  /\ sdone.preBrightness = 3
  /\ screens[sdone.mesh].material
  /\ meshStudio[sdone.mesh] # DefaultStudio
  /\ ledScreen = sdone.mesh

\* C6: once two overlapping switchStudio calls have both completed their
\* loads, the scene holds exactly one environment mesh, and it is
\* currentStudioMesh.
C6_OneEnvironmentAfterOverlap ==
  (/\ sdone.kind = "switchOk"
   /\ sdone.overlapped /\ ~sdone.peerFailed
   /\ switches = {})
  => sceneEnv = {currentStudioMesh}

\* C7: a texture load that completes after its LEDScreen has been replaced
\* changes neither the global custom texture fields nor any material's map
\* or emissiveMap.
C7_LateTextureDiscarded ==
  (sdone.kind = "texDone" /\ sdone.late) => ~sdone.wrote

\* C8: resetToOriginal() on a bound LEDScreen leaves the material's map,
\* emissiveMap and emissiveIntensity at the values stored at bind time, and
\* currentTexture and both global custom texture fields null.
C8_ResetRestoresBindTime ==
  (sdone.kind = "reset" /\ sdone.result)
  => /\ material[sdone.mesh].map = bindTime[sdone.mesh].map
     /\ material[sdone.mesh].emissiveMap = bindTime[sdone.mesh].emissiveMap
     /\ material[sdone.mesh].emissiveIntensity
          = bindTime[sdone.mesh].emissiveIntensity
     /\ screens[sdone.mesh].currentTexture = NULL
     /\ globalCustomTexture = NULL
     /\ globalCustomEmissiveTexture = NULL

\* A reset has run on a bound screen that showed a custom texture at a
\* brightness other than the stored one.
C8_Witness ==
  /\ sdone.kind = "reset" /\ sdone.result
  /\ sdone.preTexture = CustomTexture(1)
  /\ sdone.preBrightness = 3
  /\ bindTime[sdone.mesh].emissiveIntensity # 3
  /\ bindTime[sdone.mesh].map = NativeMap(sdone.mesh)

\* C9: when a deselect() call has ended, every child's emissive colour and
\* intensity are what they were before the first select().
C9_DeselectRestoresChildren ==
  objLast \in {"deselect", "deselectThrew"} => children = pristine

\* C10: when the load inside switchStudio fails, switchStudio returns false
\* and the scene holds no environment mesh.
C10_FailedSwitchLeavesNoEnvironment ==
  sdone.kind = "switchFail" => (~sdone.result /\ sceneEnv = {})

\* C11: when the load inside a studio switch fails, the environment that
\* was in the scene when the switch was called is still in the scene and has
\* not been disposed.
C11_FailedSwitchKeepsEnvironment ==
  sdone.kind = "switchFail"
  => /\ sdone.preEnv \subseteq sceneEnv
     /\ \A m \in sdone.preEnv : disposals[m] = 0

\* C12: whenever a camera is pinned and fullscreen is not active, the
\* camera preview surface (#camera-viewport) is displayed.
C12_PinnedPreviewShown ==
  (pinnedCamera # NULL /\ ~isFullscreen) => viewportShown

\* A camera is pinned, another entity has just been deleted, and nothing is
\* selected.
C12_Witness ==
  /\ last = "deleted"
  /\ pinnedCamera # NULL
  /\ ~isFullscreen
  /\ selectedObject = NULL
  /\ pc = "idle"

\* C13: after enterFullscreen followed by exitFullscreen, every tracked
\* camera's proxy-mesh and helper visibility and the gizmo's visibility are
\* what they were when enterFullscreen was called.
C13_FullscreenRoundTrip ==
  last = "exitedFullscreen"
  => /\ \A c \in SeqToSet(cinemaCameras) :
          /\ helperVisible[c] = fsPre.helper[c]
          /\ meshVisible[c] = fsPre.mesh[c]
     /\ tcVisible = fsPre.tc

\* C14: a click selects the tracked entity that owns the nearest intersected
\* mesh; with an empty hit list nothing is selected and the gizmo is
\* detached.
C14_ClickSelectsNearestOwner ==
  last = "click"
  => IF lastHit # NULL
       THEN selectedObject = lastHit /\ isSelected[lastHit] /\ tcObject = lastHit
       ELSE selectedObject = NULL /\ tcObject = NULL

CropInsideAndCentered ==
  /\ 0 <= crop.sourceX
  /\ crop.sourceX + crop.sourceWidth <= imgWidth * Scale
  /\ 0 <= crop.sourceY
  /\ crop.sourceY + crop.sourceHeight <= imgHeight * Scale
  /\ 2 * crop.sourceX + crop.sourceWidth = imgWidth * Scale
  /\ 2 * crop.sourceY + crop.sourceHeight = imgHeight * Scale

\* C15: for every image with positive sides, the output of cropImageTo10x3
\* has width / height = 10/3 and width <= 3600, and the source rectangle
\* lies inside the image and is centred.
C15_CropIsTenByThree ==
  crop.done
  => /\ crop.canvasWidth * AspectDen = crop.canvasHeight * AspectNum
     /\ crop.canvasHeight > 0
     /\ crop.canvasWidth <= MaxOutputWidth
     /\ CropInsideAndCentered

\* C16: after construction and after any sequence of setFocalLength and
\* setSensorSize calls, camera.fov is the angle of the current sensorSize and
\* focalLength, never of earlier ones.
C16_FovTracksLens ==
  cinemaCamera.fov = FovDegrees(cinemaCamera.sensorSize, cinemaCamera.focalLength)

C16_Witness ==
  /\ cinemaCamera.last = "setSensorSize"
  /\ cinemaCamera.focalLength # DefaultFocalLength
  /\ cinemaCamera.sensorSize # DefaultSensorSize
  /\ cinemaCamera.fov # FovDegrees(DefaultSensorSize, DefaultFocalLength)
  /\ cinemaCamera.fov = FovDegrees(cinemaCamera.sensorSize, cinemaCamera.focalLength)

ReferencesExternal(file) ==
  file.ext = "gltf" /\ file.parses /\ (file.externalBuffer \/ file.externalImage)

\* C17: an uploaded .gltf whose description references a buffer or an image
\* by a non-data: URI is rejected before any load starts: no load is begun,
\* no model is added to the scene or the tracked models, and the upload
\* form is back in its initial state.
C17_ExternalGltfRejected ==
  (upload.stage \in {"reading", "loading", "done"}
   /\ ReferencesExternal(upload.file))
  => /\ ~upload.loadStarted
     /\ upload.stage = "done"
        => /\ upload.placed = upload.prePlaced
           /\ ~upload.formFile
           /\ upload.buttonDisabled

\* C18: on an LEDScreen that has found no material, setCustomTexture,
\* setBrightness and resetToOriginal change nothing: the LEDScreen's fields,
\* the global brightness and the global custom texture stay as they were and
\* no texture load is started.
C18_NoMaterialNoEffect ==
  [][(/\ ledScreen # NULL
      /\ ~screens[ledScreen].material
      /\ (MoveSlider \/ ClickReset \/ UploadTexture))
     => /\ screens' = screens
        /\ material' = material
        /\ globalBrightness' = globalBrightness
        /\ globalCustomTexture' = globalCustomTexture
        /\ globalCustomEmissiveTexture' = globalCustomEmissiveTexture
        /\ texLoads' = texLoads]_vars

C18_Witness ==
  /\ sdone.kind = "reset"
  /\ ~sdone.result
  /\ ledScreen # NULL
  /\ ~screens[ledScreen].material
  /\ globalCustomTexture # NULL
  /\ globalBrightness # FallbackIntensity

ProbeSucceeded(studio) == ResponseOk(discovery.probe[studio])

\* C19: when loadAvailableStudios has returned, the list holds exactly the
\* known studios whose probe succeeded, in their order; a probe that fails
\* or raises leaves out that studio alone and discovery still ends normally.
C19_DiscoveryListsProbedStudios ==
  discovery.returned
  => /\ discovery.isLoaded
     /\ discovery.availableStudios = SelectSeq(knownStudios, ProbeSucceeded)
     /\ discovery.result = discovery.availableStudios

C19_Witness ==
  /\ discovery.returned
  /\ discovery.probe["MADRID_15X5"] = "rejected"
  /\ discovery.probe["BARCELONA"] = "200"
  /\ discovery.availableStudios = <<"BARCELONA">>

\* C20: unpinCameraPreview called while no camera is pinned changes nothing:
\* no camera is pinned afterwards, and the selection, the gizmo, the panels
\* and the preview's visibility are as before; so also right after the
\* pinned camera was deleted.
C20_UnpinWithoutPinIsNoOp ==
  [][(pinnedCamera = NULL /\ Unpin)
     => /\ pinnedCamera' = NULL
        /\ selectedObject' = selectedObject
        /\ isSelected' = isSelected
        /\ viewportShown' = viewportShown
        /\ tcObject' = tcObject
        /\ tcVisible' = tcVisible
        /\ helperVisible' = helperVisible
        /\ meshVisible' = meshVisible
        /\ cinemaCameras' = cinemaCameras
        /\ isFullscreen' = isFullscreen
        /\ threw' = threw]_vars

C20_Witness ==
  /\ last = "unpinAfterDeletePinned"
  /\ pinnedCamera = NULL
  /\ selectedObject = NULL
  /\ ~threw

\* C21: when setCustomTexture is given a file that is no decodable image,
\* a failure is eventually signalled to the caller (its callback or an error
\* outcome runs), and the caller is not crashed.
C21_DecodeFailureSignalled ==
  (texJob.stage = "decoding" /\ ~texJob.decodes)
    ~> (texJob.signalled /\ ~texJob.crashed)

C23_DeleteRemovesOnlySelection ==
  /\ [][(pc = "idle" /\ selectedObject # NULL
          /\ last' \in {"deleted", "deletedPinned"})
         => /\ sceneObjects' = RemoveFrom(sceneObjects, selectedObject)
            /\ cinemaCameras' = RemoveFrom(cinemaCameras, selectedObject)
            /\ selectedObject \notin SeqToSet(sceneObjects')
                                    \cup SeqToSet(cinemaCameras')
            /\ selectedObject' = NULL
            /\ tcObject' = NULL
            /\ \A e \in EntityIds \ {selectedObject} :
                 isSelected'[e] = isSelected[e]]_vars
  /\ [][(selectedObject = NULL /\ ClickDelete)
         => UNCHANGED <<sceneObjects, cinemaCameras, selectedObject,
                        pinnedCamera, isSelected, tcObject, tcVisible, tcMode,
                        helperVisible, meshVisible, viewportShown,
                        mainToolsShown, isFullscreen>>]_vars

C23_Witness ==
  /\ last = "deleted"
  /\ selectedObject = NULL
  /\ tcObject = NULL
  /\ Len(sceneObjects) + Len(cinemaCameras) >= 2
  /\ pc = "idle"

\* C24: whenever a CinemaCamera is the selection, the gizmo mode is
\* translate or rotate, never scale, whatever keys were pressed, mode buttons
\* clicked and selections made before.
C24_CameraNeverScaled ==
  (selectedObject # NULL /\ IsCamera(selectedObject))
    => tcMode \in {"translate", "rotate"}

\* A model and a camera exist, the camera is selected, in rotate mode.
C24_Witness ==
  /\ selectedObject # NULL
  /\ IsCamera(selectedObject)
  /\ sceneObjects # << >>
  /\ tcMode = "rotate"
  /\ tcObject = selectedObject

\* C25: Escape pressed in fullscreen exits fullscreen and leaves the
\* selection as it is; Escape pressed outside fullscreen leaves nothing
\* selected and the gizmo detached; in both cases nothing is deleted and the
\* gizmo mode is not changed.
C25_EscapeExitsOrDeselects ==
  [][/\ (pc = "idle" /\ isFullscreen /\ last' = "exitedFullscreen")
          => /\ ~isFullscreen'
             /\ selectedObject' = selectedObject
             /\ UNCHANGED <<sceneObjects, cinemaCameras, tcMode>>
     /\ (last' = "escaped")
          => /\ selectedObject' = NULL
             /\ tcObject' = NULL
             /\ ~isFullscreen'
             /\ UNCHANGED <<sceneObjects, cinemaCameras, tcMode>>]_vars

\* The camera the preview is due to show: the pinned one, else the selection
\* if it is a camera, else none.
PreviewSource ==
  IF pinnedCamera # NULL THEN pinnedCamera
  ELSE IF selectedObject # NULL /\ IsCamera(selectedObject) THEN selectedObject
  ELSE NULL

\* C26: every preview render is made from the pinned camera if one is
\* pinned, else from the selected camera; with neither there is no preview
\* render; and once the preview renderer exists, every main frame with a
\* camera selected or pinned makes a preview render.
C26_PreviewRendersPinnedElseSelected ==
  /\ []((pc = "render" /\ op = "preview")
          => (PreviewSource # NULL /\ renderCamera = PreviewSource
              /\ renderCamera \in SeqToSet(cinemaCameras)))
  /\ [][(Animate /\ cameraPreviewRenderer /\ PreviewSource # NULL)
         => (pc' = "render" /\ op' = "preview"
             /\ renderCamera' = PreviewSource)]_vars
  /\ [][(Animate /\ PreviewSource = NULL) => pc' = "idle"]_vars

\* A frame's preview render from the pinned camera while the other camera is
\* the selection.
C26_Witness ==
  /\ pc = "render"
  /\ op = "preview"
  /\ last = "other"
  /\ pinnedCamera # NULL
  /\ selectedObject # NULL
  /\ IsCamera(selectedObject)
  /\ selectedObject # pinnedCamera
  /\ renderCamera = pinnedCamera

\* C27: at the offscreen render call of capture() and of
\* renderCameraPreview(), every tracked camera's helper and proxy mesh and
\* the gizmo are invisible, whatever they were when the call began.
C27_VisualsHiddenAtRender ==
  pc = "render"
  => /\ \A c \in SeqToSet(cinemaCameras) :
          ~helperVisible[c] /\ ~meshVisible[c]
     /\ ~tcVisible

\* The render call of a capture entered with a helper, a mesh and the gizmo
\* showing, two cameras tracked.
C27_Witness ==
  /\ pc = "render"
  /\ op = "capture"
  /\ Len(cinemaCameras) = 2
  /\ preTc
  /\ \E c \in SeqToSet(cinemaCameras) : preHelper[c] /\ preMesh[c]
  /\ \A c \in SeqToSet(cinemaCameras) : ~helperVisible[c] /\ ~meshVisible[c]

\* C28: in the class-based page of part_000, at the offscreen render call
\* inside CinemaCamera.capture() every tracked camera's helper and proxy mesh
\* and the gizmo are invisible, and once the call has returned they are as
\* they were when it began.
C28_Part000CaptureHidesVisuals ==
  /\ (pc = "render" /\ op = "capture")
       => /\ \A c \in SeqToSet(cinemaCameras) :
               ~helperVisible[c] /\ ~meshVisible[c]
          /\ ~tcVisible
  /\ (pc = "after" /\ op = "capture" /\ ~threw)
       => /\ helperVisible = preHelper
          /\ meshVisible = preMesh
          /\ tcVisible = preTc

\* C29: in the class-based page of part_000, a selection that moves to a
\* placed model while a camera is pinned and its preview is displayed leaves
\* the preview displayed.
C29_Part000PinnedPreviewStays ==
  [][(/\ pinnedCamera # NULL
      /\ viewportShown
      /\ selectedObject' # selectedObject
      /\ selectedObject' # NULL
      /\ IsSceneObject(selectedObject'))
       => viewportShown']_vars

\* C30: in the page script of part_000, whatever clicks and key presses
\* have been handled, at most one of selectedModel and selectedCamera is
\* non-null; a click that selects a model while a camera is selected leaves
\* no camera selected.
C30_OneSelectionAtMost ==
  /\ [](page.selectedModel = NULL \/ page.selectedCamera = NULL)
  /\ [][(/\ page.selectedCamera # NULL
         /\ page'.selectedModel # page.selectedModel
         /\ page'.selectedModel # NULL)
          => page'.selectedCamera = NULL]_vars

\* The places, in traversal order, of the materials named M_WhiteScreen.
ScreenMaterials == {i \in 1..Len(binding.file) :
                      binding.file[i].name = ScreenMaterialName}

\* C31: once the LEDScreen is constructed on a mesh with materials of the
\* target name, the bound material is the first of them in traversal order,
\* and the stored original map and emissive map are that first material's,
\* the stored original intensity that material's (1 when it has none).
C31_BindsFirstMatch ==
  (binding.stage # "loaded" /\ ScreenMaterials # {})
    => LET first == CHOOSE i \in ScreenMaterials :
                      \A j \in ScreenMaterials : i <= j
       IN /\ binding.screen.material = first
          /\ binding.screen.originalBaseColorTexture = binding.file[first].map
          /\ binding.screen.originalEmissiveTexture
               = binding.file[first].emissiveMap
          /\ binding.screen.originalEmissiveIntensity
               = OrFallback(binding.file[first].emissiveIntensity)

\* The intensity the bound material came with, 1.0 standing in only for a
\* material that has none.
NativeOrOne(i) == IF i = Undefined THEN FallbackIntensity ELSE i

\* C32: binding stores the bound material's own emissive intensity as the
\* original intensity whatever its value, 0 included, and 1.0 only when the
\* material has none; after resetToOriginal the material is back at it.
C32_OriginalIntensityKept ==
  (binding.stage # "loaded" /\ binding.screen.material # 0)
    => LET native == NativeOrOne(
                       binding.file[binding.screen.material].emissiveIntensity)
       IN /\ binding.screen.originalEmissiveIntensity = native
          /\ binding.stage = "reset"
               => binding.materials[binding.screen.material].emissiveIntensity
                    = native

\* C33: when a studio switch has completed and bound a screen material,
\* whatever setBrightness calls fell between its start and its end, the
\* global brightness and the new material's emissiveIntensity are both the
\* value of the most recent setBrightness call.
C33_SwitchKeepsLastBrightness ==
  (/\ sdone.kind = "switchOk"
   /\ sdone.preBrightness # NotSet
   /\ screens[sdone.mesh].material)
  => /\ globalBrightness = sdone.preBrightness
     /\ material[sdone.mesh].emissiveIntensity = sdone.preBrightness

\* C34: the texture held as the global custom texture has never been
\* disposed, however many studio switches have disposed the meshes whose
\* screen material carried it.
C34_CustomTextureNeverDisposed ==
  globalCustomTexture # NULL => globalCustomTexture \notin disposedTextures

\* A switch has just run to its end on a second mesh carrying the custom
\* texture, after the mesh that carried it before was disposed.
C34_Witness ==
  /\ globalCustomTexture # NULL
  /\ \E m \in MeshIds : /\ disposals[m] > 0
                        /\ material[m].map = globalCustomTexture
  /\ \E m \in MeshIds : /\ disposals[m] = 0
                        /\ m = ledScreen
                        /\ material[m].map = globalCustomTexture
  /\ disposedTextures # {}

\* C35: no call of select() or deselect() on a SceneObject ends by raising,
\* whatever materials its children have.
C35_SelectDeselectNeverRaise ==
  objLast # "deselectThrew"

\* C36: at every handler boundary at which fullscreen is active, the
\* selected entity is a tracked CinemaCamera and a fullscreen render loop is
\* running (it renders from the selected camera).
C36_FullscreenHasCamera ==
  (pc = "idle" /\ isFullscreen)
    => /\ selectedObject # NULL
       /\ IsCamera(selectedObject)
       /\ selectedObject \in SeqToSet(cinemaCameras)
       /\ fsLoops > 0

\* C37: at every handler boundary, selectedObject is non-null exactly when
\* it is a tracked entity whose isSelected is true, and no tracked entity has
\* isSelected true while selectedObject is null.
C37_SelectionMatchesFlags ==
  pc = "idle"
    => /\ selectedObject # NULL
            => (selectedObject \in Tracked /\ isSelected[selectedObject])
       /\ selectedObject = NULL
            => \A e \in Tracked : ~isSelected[e]

\* C38: when exitFullscreen has returned, isFullscreen is false and no
\* fullscreen overlay is left in the document, however many enterFullscreen
\* requests came before it.
C38_ExitLeavesNoOverlay ==
  (pc = "idle" /\ last = "exitedFullscreen")
    => (~isFullscreen /\ overlays = 0)

\* C39: whenever the current LEDScreen has a bound material and no studio
\* switch is in flight, the material's emissiveIntensity, the screen's
\* brightness and the global brightness are equal, from the end of the
\* default studio's load on.
C39_BrightnessAgrees ==
  (/\ ledScreen # NULL
   /\ screens[ledScreen].material
   /\ switches = {})
  => /\ material[ledScreen].emissiveIntensity = screens[ledScreen].brightness
     /\ screens[ledScreen].brightness = globalBrightness

\* C40: when no switchStudio call is in flight, whichever of the calls made
\* so far succeeded or failed, currentStudioMesh is either null or a mesh in
\* the scene, currentStudio is that mesh's studio, and no mesh has been
\* disposed more than once.
C40_ManagerTracksScene ==
  /\ switches = {}
       => (currentStudioMesh # NULL
             => /\ currentStudioMesh \in sceneEnv
                /\ currentStudio = meshStudio[currentStudioMesh])
  /\ \A m \in MeshIds : disposals[m] <= 1

====
